---- MODULE Spec2Model ----
(***************************************************************************)
(* Model of the Virginia General District Court docket crawler:            *)
(*   src/main.py                      job loop, queue reports, VPN rotation *)
(*   src/scrapers/virginia_scraper.py the docket enumeration (run_scraper)  *)
(*   src/scrapers/base_scraper.py     the artifact tree of a job            *)
(*   src/utils/json_grouper.py        grouping and merging of case records  *)
(*                                                                         *)
(* Python strings are sequences of one-character strings, so that str(),   *)
(* int(), zfill(), strip() and the f-strings are computed, not assumed.    *)
(* A Python value that may be an int or a str is a tagged record (IntV,    *)
(* StrV).  A Python dict is a function whose DOMAIN is its key set.        *)
(***************************************************************************)
EXTENDS Integers, Sequences, FiniteSets, TLC

\* ------------------------------------------------------------------ bounds
\* Highest docket number the court site holds a case for (fetches above it
\* cannot return success, so a session is finite).
MaxDocket == 2
\* Highest docket number the queue stores in a job it hands out first.
MaxStored == 0
\* Number of jobs the worker fetches before the model stops following it.
MaxJobs == 2
\* Wall clock (seconds) at which the model stops advancing time.
MaxClock == 120
\* Seconds by which one Tick advances the wall clock.
TickSeconds == 60
\* vpn_manager.get_reconnect_interval_minutes(): configured rotation interval.
ReconnectIntervalMinutes == 1
\* Number of raw record files an aggregation pass is given (SpecAgg).
MaxFiles == 2

\* ------------------------------------------------------- program constants
\* run_scraper: the consecutive-no-results threshold
max_consecutive_failures == 1

\* ----------------------------------------------------------------- strings
DigitChars == <<"0", "1", "2", "3", "4", "5", "6", "7", "8", "9">>

DigitChar(d) == DigitChars[d + 1]

IsDigit(c) == \E d \in 0..9 : DigitChars[d + 1] = c

DigitVal(c) == CHOOSE d \in 0..9 : DigitChars[d + 1] = c

RECURSIVE NatStr(_)
NatStr(n) ==
    IF n < 10 THEN <<DigitChar(n)>>
    ELSE NatStr(n \div 10) \o <<DigitChar(n % 10)>>

\* str(n) of a Python int
PyStr(n) == IF n < 0 THEN <<"-">> \o NatStr(0 - n) ELSE NatStr(n)

RECURSIVE Zeros(_)
Zeros(k) == IF k <= 0 THEN <<>> ELSE <<"0">> \o Zeros(k - 1)

\* s.zfill(w): pads on the left with "0", after a leading sign if any
zfill(s, w) ==
    IF Len(s) >= w THEN s
    ELSE IF Len(s) > 0 /\ s[1] \in {"-", "+"}
         THEN <<s[1]>> \o Zeros(w - Len(s)) \o Tail(s)
         ELSE Zeros(w - Len(s)) \o s

IsSpace(c) == c \in {" ", "\t", "\n"}

RECURSIVE LStrip(_)
LStrip(s) == IF s # <<>> /\ IsSpace(s[1]) THEN LStrip(Tail(s)) ELSE s

RECURSIVE RStrip(_)
RStrip(s) ==
    IF s # <<>> /\ IsSpace(s[Len(s)]) THEN RStrip(SubSeq(s, 1, Len(s) - 1)) ELSE s

\* s.strip()
strip(s) == RStrip(LStrip(s))

RECURSIVE DigitsVal(_)
DigitsVal(s) ==
    IF s = <<>> THEN 0
    ELSE 10 * DigitsVal(SubSeq(s, 1, Len(s) - 1)) + DigitVal(s[Len(s)])

\* int(s) of a str: surrounding whitespace and one sign are accepted, then
\* one or more digits; anything else raises ValueError.
IntBody(s) ==
    LET t == strip(s) IN
    IF t # <<>> /\ t[1] \in {"-", "+"} THEN Tail(t) ELSE t

IntParses(s) ==
    /\ IntBody(s) # <<>>
    /\ \A i \in 1..Len(IntBody(s)) : IsDigit(IntBody(s)[i])

IntOfStr(s) ==
    LET t == strip(s) IN
    IF t[1] = "-" THEN 0 - DigitsVal(IntBody(s)) ELSE DigitsVal(IntBody(s))

\* s[-k:]
LastChars(s, k) == IF Len(s) <= k THEN s ELSE SubSeq(s, Len(s) - k + 1, Len(s))

\* --------------------------------------------------- int-or-str values
IntV(n) == [t |-> "int", n |-> n, s |-> <<>>]
StrV(s) == [t |-> "str", n |-> 0, s |-> s]

\* int(v) succeeds
PyIntOk(v) == v.t = "int" \/ IntParses(v.s)
\* int(v)
PyInt(v) == IF v.t = "int" THEN v.n ELSE IntOfStr(v.s)
\* str(v)
PyStrOf(v) == IF v.t = "int" THEN PyStr(v.n) ELSE v.s

\* ------------------------------------------------------------------- dicts
\* d.get(k, default)
Get(d, k, default) == IF k \in DOMAIN d THEN d[k] ELSE default
\* d[k] = v
Put(d, k, v) == (k :> v) @@ d

\* str.upper() on the docket type codes the queue uses
upper(s) ==
    CASE s \in {"gv", "Gv", "gV"} -> "GV"
      [] s \in {"gc", "Gc", "gC"} -> "GC"
      [] s \in {"gt", "Gt", "gT"} -> "GT"
      [] OTHER -> s

\* Python string literals used below, as character sequences
S_json == <<".", "j", "s", "o", "n">>
S_grouped_case == <<"g", "r", "o", "u", "p", "e", "d", "_", "c", "a", "s", "e", "_">>

\* s.replace(a, b) for single characters a, b
replace(s, a, b) == [i \in 1..Len(s) |-> IF s[i] = a THEN b ELSE s[i]]

\* ------------------------------------------------- utils/json_grouper.py
\* A Python value is truthy: a non-empty str here (section fields are strs)
Truthy(v) == v # <<>>

\* any(v for v in d.values() if v)
AnyValue(d) == \E k \in DOMAIN d : Truthy(d[k])

\* load_all_json_files: the directory listing in os.listdir order; a file is
\* [ok |-> TRUE, data |-> record] or [ok |-> FALSE, ...] when json.load raises.
RECURSIVE load_all_json_files(_)
load_all_json_files(listing) ==
    IF listing = <<>> THEN <<>>
    ELSE (IF listing[1].ok THEN <<listing[1].data>> ELSE <<>>)
         \o load_all_json_files(Tail(listing))

CaseInfo(case) == Get(case, "Case/Defendant Information", <<>>)

\* case_info.get(k, case_info.get(k + " ", "")).strip()
InfoField(case_info, k, k_sp) == strip(Get(case_info, k, Get(case_info, k_sp, <<>>)))

create_grouping_key(case_data) ==
    LET case_info == CaseInfo(case_data)
        filed_date == InfoField(case_info, "Filed Date", "Filed Date ")
        locality == InfoField(case_info, "Locality", "Locality ")
        name == InfoField(case_info, "Name", "Name ")
        address == InfoField(case_info, "Address", "Address ")
        gender == InfoField(case_info, "Gender", "Gender ")
        dob == InfoField(case_info, "DOB", "DOB ")
    IN filed_date \o <<"|">> \o locality \o <<"|">> \o name \o <<"|">>
       \o address \o <<"|">> \o gender \o <<"|">> \o dob

\* case.get(info).get("Case Number", ...get("Case Number ", "")).strip()
CaseNumberOf(case) == InfoField(CaseInfo(case), "Case Number", "Case Number ")

\* {"case_number": case_number, **section}
WithCase(case_number, section) == section @@ ("case_number" :> case_number)

RECURSIVE MergeHearings(_, _)
MergeHearings(case_number, hearings) ==
    IF hearings = <<>> THEN <<>>
    ELSE (IF DOMAIN hearings[1] # {} /\ AnyValue(hearings[1])
          THEN <<WithCase(case_number, hearings[1])>> ELSE <<>>)
         \o MergeHearings(case_number, Tail(hearings))

\* the body of "for case in cases" of merge_grouped_cases
MergeOne(merged, case) ==
    LET case_number == CaseNumberOf(case)
        charge_info == Get(case, "Charge Information", <<>>)
        hearings == Get(case, "Hearing Information", <<>>)
        disposition_info == Get(case, "Disposition Information", <<>>)
    IN [merged EXCEPT
          !.charges = @ \o (IF DOMAIN charge_info # {} /\ AnyValue(charge_info)
                            THEN <<WithCase(case_number, charge_info)>> ELSE <<>>),
          !.hearings = @ \o MergeHearings(case_number, hearings),
          !.dispositions = @ \o (IF DOMAIN disposition_info # {}
                                 THEN <<WithCase(case_number, disposition_info)>>
                                 ELSE <<>>)]

RECURSIVE MergeAll(_, _)
MergeAll(merged, cases) ==
    IF cases = <<>> THEN merged ELSE MergeAll(MergeOne(merged, cases[1]), Tail(cases))

\* Mutant of merge_grouped_cases: the header comes from the last member
merge_grouped_cases_LastHeader(cases) ==
    IF cases = <<>> THEN <<>>
    ELSE MergeAll(
           [state |-> Get(cases[Len(cases)], "state", "VA"),
            court_name |-> Get(cases[Len(cases)], "court_name",
                               Get(cases[Len(cases)], "courtName", "")),
            download_date |-> Get(cases[Len(cases)], "download_date", ""),
            county_no |-> Get(cases[Len(cases)], "searchFipsCode",
                              Get(cases[Len(cases)], "county_no", "")),
            docket_information |-> CaseInfo(cases[Len(cases)]),
            charges |-> <<>>,
            hearings |-> <<>>,
            dispositions |-> <<>>],
           cases)

merge_grouped_cases(cases) ==
    IF cases = <<>> THEN <<>>
    ELSE MergeAll(
           [state |-> Get(cases[1], "state", "VA"),
            court_name |-> Get(cases[1], "court_name", Get(cases[1], "courtName", "")),
            download_date |-> Get(cases[1], "download_date", ""),
            county_no |-> Get(cases[1], "searchFipsCode", Get(cases[1], "county_no", "")),
            docket_information |-> CaseInfo(cases[1]),
            charges |-> <<>>,
            hearings |-> <<>>,
            dispositions |-> <<>>],
           cases)

\* grouped_cases = defaultdict(list): the keys in first-seen order
RECURSIVE GroupKeys(_, _)
GroupKeys(all_cases, seen) ==
    IF all_cases = <<>> THEN seen
    ELSE LET key == create_grouping_key(all_cases[1])
         IN GroupKeys(Tail(all_cases),
                      IF \E i \in 1..Len(seen) : seen[i] = key THEN seen
                      ELSE Append(seen, key))

\* grouped_cases[key]: the cases of one key, in load order
CasesOfKey(all_cases, key) ==
    SelectSeq(all_cases, LAMBDA case : create_grouping_key(case) = key)

\* case_numbers_list: the distinct non-empty case numbers of a class
RECURSIVE case_numbers_list(_, _)
case_numbers_list(cases, acc) ==
    IF cases = <<>> THEN acc
    ELSE LET cn == CaseNumberOf(cases[1])
         IN case_numbers_list(Tail(cases),
                IF Truthy(cn) /\ ~(\E i \in 1..Len(acc) : acc[i] = cn)
                THEN Append(acc, cn) ELSE acc)

\* "_".join(names)
RECURSIVE JoinUnderscore(_)
JoinUnderscore(names) ==
    IF names = <<>> THEN <<>>
    ELSE IF Len(names) = 1 THEN names[1]
    ELSE names[1] \o <<"_">> \o JoinUnderscore(Tail(names))

\* Mutant of GroupedFilename: the fallback name carries no index
GroupedFilename_NoIndex(cases, idx) ==
    LET cns == case_numbers_list(cases, <<>>) IN
    IF Len(cns) = 1 THEN replace(cns[1], "-", "_") \o S_json
    ELSE IF Len(cns) > 1
         THEN JoinUnderscore([i \in 1..Len(cns) |-> replace(cns[i], "-", "_")]) \o S_json
         ELSE S_grouped_case \o S_json

GroupedFilename(cases, idx) ==
    LET cns == case_numbers_list(cases, <<>>) IN
    IF Len(cns) = 1 THEN replace(cns[1], "-", "_") \o S_json
    ELSE IF Len(cns) > 1
         THEN JoinUnderscore([i \in 1..Len(cns) |-> replace(cns[i], "-", "_")]) \o S_json
         ELSE S_grouped_case \o PyStr(idx) \o S_json

\* The writes of group_and_merge_json_files in order: <<filename, merged>>
GroupedWrites(all_cases) ==
    LET keys == GroupKeys(all_cases, <<>>) IN
    [idx \in 1..Len(keys) |->
        LET cases == CasesOfKey(all_cases, keys[idx]) IN
        [filename |-> GroupedFilename(cases, idx),
         merged |-> merge_grouped_cases(cases)]]

\* group_and_merge_json_files returns merged_results
group_and_merge_json_files(listing) ==
    LET writes == GroupedWrites(load_all_json_files(listing)) IN
    [idx \in 1..Len(writes) |-> writes[idx].merged]

\* Mutant of WriteFiles: a write to a name the directory holds goes to a new
\* name beside it
RECURSIVE WriteFiles_KeepOld(_, _)
WriteFiles_KeepOld(dir, writes) ==
    IF writes = <<>> THEN dir
    ELSE WriteFiles_KeepOld(
             IF writes[1].filename \in DOMAIN dir
             THEN Put(dir, writes[1].filename \o <<"_", "1">>, writes[1].merged)
             ELSE Put(dir, writes[1].filename, writes[1].merged),
             Tail(writes))

\* The directory after the writes: a later write to a name replaces the earlier
RECURSIVE WriteFiles(_, _)
WriteFiles(dir, writes) ==
    IF writes = <<>> THEN dir
    ELSE WriteFiles(Put(dir, writes[1].filename, writes[1].merged), Tail(writes))


\* ------------------------------------------------------------ src/main.py
\* Mutant of pad_3_digits: the value is not padded
pad_3_digits_Unpadded(value) == PyStrOf(value)

\* pad_3_digits(value) of main.py
pad_3_digits(value) ==
    IF PyIntOk(value) THEN zfill(PyStr(PyInt(value)), 3) ELSE PyStrOf(value)

\* Mutant of start_docket: the session starts at the stored number itself
start_docket_Same(stored) == IntV(PyInt(stored))

\* int(config['docketNumber']) + 1 (line 208)
start_docket(stored) == IntV(PyInt(stored) + 1)

\* lines 180-184: countyNo, searchFipsCode and courtFips get the padded string
normalize_county(config) ==
    IF "countyNo" \in DOMAIN config
    THEN Put(Put(Put(config, "countyNo", StrV(pad_3_digits(config["countyNo"]))),
                 "searchFipsCode", StrV(pad_3_digits(config["countyNo"]))),
             "courtFips", StrV(pad_3_digits(config["countyNo"])))
    ELSE config

\* lines 187-188
normalize_court_name(config) ==
    IF "countyName" \in DOMAIN config /\ "courtName" \notin DOMAIN config
    THEN Put(config, "courtName", config["countyName"]) ELSE config

\* lines 190-191
normalize_state(config) ==
    IF "stateAbbreviation" \in DOMAIN config /\ "state" \notin DOMAIN config
    THEN Put(config, "state", config["stateAbbreviation"]) ELSE config

\* lines 194-203: case type and search division from the docket type
normalize_docket_type(config) ==
    IF "docketType" \in DOMAIN config /\ upper(config["docketType"]) \in {"GC", "GT"}
    THEN Put(Put(config, "caseType", "criminal"), "searchDivision", "T")
    ELSE IF "docketType" \in DOMAIN config /\ upper(config["docketType"]) = "GV"
         THEN Put(Put(config, "caseType", "civil"), "searchDivision", "V")
         ELSE config

\* lines 206-210: the session starts after the stored number; a value int()
\* rejects is left as it is
normalize_docket_number(config) ==
    IF "docketNumber" \in DOMAIN config /\ PyIntOk(config["docketNumber"])
    THEN Put(config, "docketNumber", start_docket(config["docketNumber"]))
    ELSE config

\* line 213
default_case_type(config) == Put(config, "caseType", Get(config, "caseType", "civil"))

\* line 214
default_search_division(config) ==
    Put(config, "searchDivision", Get(config, "searchDivision", "V"))

normalize_config_from_api(obj) ==
    default_search_division(default_case_type(normalize_docket_number(
        normalize_docket_type(normalize_state(normalize_court_name(
            normalize_county(obj)))))))

\* Mutant of recovery_job: requeues the number after the last successful one
recovery_job_NextNumber(original_config, last) ==
    [stateName |-> Get(original_config, "stateName", "VIRGINIA"),
     stateAbbreviation |-> Get(original_config, "stateAbbreviation", "VA"),
     countyNo |-> Get(original_config, "countyNo", "None"),
     countyName |-> Get(original_config, "countyName", "None"),
     docketNumber |-> StrV(zfill(PyStr(last + 1), 6)),
     docketYear |-> Get(original_config, "docketYear", "None"),
     docketType |-> Get(original_config, "docketType", "None")]

\* Mutant of recovery_job: the docket number is not zero-padded
recovery_job_Unpadded(original_config, last) ==
    [stateName |-> Get(original_config, "stateName", "VIRGINIA"),
     stateAbbreviation |-> Get(original_config, "stateAbbreviation", "VA"),
     countyNo |-> Get(original_config, "countyNo", "None"),
     countyName |-> Get(original_config, "countyName", "None"),
     docketNumber |-> StrV(PyStr(last)),
     docketYear |-> Get(original_config, "docketYear", "None"),
     docketType |-> Get(original_config, "docketType", "None")]

\* The recovery descriptor main() submits when the session ended in error
recovery_job(original_config, last) ==
    [stateName |-> Get(original_config, "stateName", "VIRGINIA"),
     stateAbbreviation |-> Get(original_config, "stateAbbreviation", "VA"),
     countyNo |-> Get(original_config, "countyNo", "None"),
     countyName |-> Get(original_config, "countyName", "None"),
     docketNumber |-> StrV(zfill(PyStr(last), 6)),
     docketYear |-> Get(original_config, "docketYear", "None"),
     docketType |-> Get(original_config, "docketType", "None")]

\* Mutant of update_docket_args: the watermark is the next number to fetch
update_docket_args_NextNumber(original_config, last) ==
    [state_name |-> Get(original_config, "stateName", "VIRGINIA"),
     county_no |-> Get(original_config, "countyNo", "None"),
     county_name |-> Get(original_config, "countyName", "None"),
     docket_number |-> IntV(last + 1),
     docket_year |-> Get(original_config, "docketYear", "None"),
     docket_type |-> Get(original_config, "docketType", "None")]

\* The keyword arguments of api_client.update_docket_number
update_docket_args(original_config, last) ==
    [state_name |-> Get(original_config, "stateName", "VIRGINIA"),
     county_no |-> Get(original_config, "countyNo", "None"),
     county_name |-> Get(original_config, "countyName", "None"),
     docket_number |-> IntV(last),
     docket_year |-> Get(original_config, "docketYear", "None"),
     docket_type |-> Get(original_config, "docketType", "None")]

\* should_reconnect_vpn(): last is last_vpn_reconnect_time (-1 models None)
should_reconnect_vpn(last, time_now) ==
    IF last = -1 THEN TRUE
    ELSE (time_now - last) >= 60 * ReconnectIntervalMinutes

\* Mutant of needs_vpn_reconnect: the job's error flag is ignored
needs_vpn_reconnect_TimeOnly(job_error, last, time_now) ==
    should_reconnect_vpn(last, time_now)

\* needs_vpn_reconnect of main()
needs_vpn_reconnect(job_error, last, time_now) ==
    IF job_error THEN TRUE ELSE should_reconnect_vpn(last, time_now)

\* ------------------------------------------- src/scrapers/base_scraper.py
\* BaseScraper.__init__: the components of output_dir below the date
output_dir(config) ==
    LET case_type == Get(config, "caseType", "civil")
        docket_type == Get(config, "docketType", "")
    IN [state |-> Get(config, "state", Get(config, "stateAbbreviation", "VA")),
        county |-> Get(config, "courtName", Get(config, "countyName", "Unknown_County")),
        folder |-> IF case_type = "criminal" /\ docket_type # "" THEN upper(docket_type)
                   ELSE IF case_type = "civil" THEN "GV"
                   ELSE upper(case_type)]

\* --------------------------------------- src/scrapers/virginia_scraper.py
\* pad_3_digits(val), local of VirginiaScraper.__init__ (lines 29-33)
scraper_pad_3_digits(val) ==
    IF PyIntOk(val) THEN zfill(PyStr(PyInt(val)), 3) ELSE PyStrOf(val)

\* __init__, lines 35-45: the county fields of self.config
scraper_county(config) ==
    IF "county_no" \in DOMAIN config
    THEN Put(Put(Put(config, "county_no", StrV(scraper_pad_3_digits(config["county_no"]))),
                 "searchFipsCode", StrV(scraper_pad_3_digits(config["county_no"]))),
             "courtFips", StrV(scraper_pad_3_digits(config["county_no"])))
    ELSE IF "searchFipsCode" \in DOMAIN config
    THEN Put(Put(Put(config, "searchFipsCode",
                     StrV(scraper_pad_3_digits(config["searchFipsCode"]))),
                 "courtFips",
                 Get(config, "courtFips",
                     StrV(scraper_pad_3_digits(config["searchFipsCode"])))),
             "county_no",
             Get(config, "county_no",
                 StrV(scraper_pad_3_digits(config["searchFipsCode"]))))
    ELSE config

\* __init__, lines 47-54: case type and division from 'docket_type'
scraper_docket_type(config) ==
    IF "docket_type" \in DOMAIN config /\ upper(config["docket_type"]) \in {"GC", "GT"}
    THEN Put(Put(config, "caseType", "criminal"), "searchDivision", "T")
    ELSE IF "docket_type" \in DOMAIN config /\ upper(config["docket_type"]) = "GV"
         THEN Put(Put(config, "caseType", "civil"),
                  "searchDivision", Get(config, "searchDivision", "V"))
         ELSE config

\* VirginiaScraper.__init__: self.config
VirginiaScraper_init(config) ==
    default_search_division(default_case_type(
        scraper_docket_type(scraper_county(config))))

case_prefixes(case_type) ==
    CASE case_type = "civil" -> <<"GV">>
      [] case_type = "criminal" -> <<"GC", "GT">>
      [] OTHER -> <<"GV">>

\* A two-letter prefix as characters
PrefixChars(prefix) ==
    CASE prefix = "GV" -> <<"G", "V">>
      [] prefix = "GC" -> <<"G", "C">>
      [] prefix = "GT" -> <<"G", "T">>

build_case_number(prefix, year, number) ==
    PrefixChars(prefix) \o year \o zfill(number, 6) \o <<"-">> \o <<"0", "0">>

get_alternate_prefix(current_prefix) ==
    IF current_prefix = "GC" THEN "GT"
    ELSE IF current_prefix = "GT" THEN "GC"
    ELSE "None"

\* Mutant of HardFailure: a timeout is not a hard failure
HardFailure_ErrorOnly(status) == status = "error"

\* The statuses run_scraper treats as hard failures of a fetch
HardFailure(status) == status \in {"error", "timeout"}

\* Mutant of run_scraper_init: last_successful_number starts at start_number
run_scraper_init_LastIsStart(config) ==
    LET case_type == Get(config, "caseType", "civil")
        start_number == PyInt(Get(config, "docketNumber", IntV(0)))
    IN [at |-> "scrape",
        case_type |-> case_type,
        docket_year |-> LastChars(PyStrOf(Get(config, "docketYear", StrV(<<>>))), 2),
        start_number |-> start_number,
        results |-> <<>>,
        current_prefix |-> case_prefixes(case_type)[1],
        current_number |-> start_number,
        last_successful_number |-> start_number,
        consecutive_failures |-> 0,
        error_occurred |-> FALSE]

\* run_scraper, lines 172-183: the locals before the first fetch
run_scraper_init(config) ==
    LET case_type == Get(config, "caseType", "civil")
        start_number == PyInt(Get(config, "docketNumber", IntV(0)))
    IN [at |-> "scrape",
        case_type |-> case_type,
        docket_year |-> LastChars(PyStrOf(Get(config, "docketYear", StrV(<<>>))), 2),
        start_number |-> start_number,
        results |-> <<>>,
        current_prefix |-> case_prefixes(case_type)[1],
        current_number |-> start_number,
        last_successful_number |-> start_number - 1,
        consecutive_failures |-> 0,
        error_occurred |-> FALSE]

\* case_number of the loop body (lines 186-187)
CurrentCaseNumber(s) ==
    build_case_number(s.current_prefix, s.docket_year, zfill(PyStr(s.current_number), 6))

\* alt_case_number (line 217)
AlternateCaseNumber(s) ==
    build_case_number(get_alternate_prefix(s.current_prefix), s.docket_year,
                      zfill(PyStr(s.current_number), 6))

\* "results.append(r); error_occurred = True; return ..."
StopHard(s, r) ==
    [s EXCEPT !.results = Append(@, r), !.error_occurred = TRUE, !.at = "returned"]

\* Mutant of CountNoResults: the miss is appended to results
CountNoResults_Logged(s) ==
    [s EXCEPT !.results = Append(@, [status |-> "no_results",
                                     case_number |-> CurrentCaseNumber(s)]),
              !.consecutive_failures = @ + 1,
              !.current_number = @ + 1,
              !.at = "sleep"]

\* a sequence without a match: lines 243-245 and 247-250
CountNoResults(s) ==
    [s EXCEPT !.consecutive_failures = @ + 1,
              !.current_number = @ + 1,
              !.at = "sleep"]

\* Mutant of RecordSuccess: last_successful_number is not updated
RecordSuccess_StaleLast(s, r, prefix) ==
    [s EXCEPT !.current_prefix = prefix,
              !.results = Append(@, r),
              !.consecutive_failures = 0,
              !.current_number = @ + 1,
              !.at = "sleep"]

\* Mutant of RecordSuccess: the active prefix is never switched
RecordSuccess_KeepPrefix(s, r, prefix) ==
    [s EXCEPT !.results = Append(@, r),
              !.consecutive_failures = 0,
              !.last_successful_number = s.current_number,
              !.current_number = @ + 1,
              !.at = "sleep"]

\* a fetched and saved case: lines 206-210 and 234-240
RecordSuccess(s, r, prefix) ==
    [s EXCEPT !.current_prefix = prefix,
              !.results = Append(@, r),
              !.consecutive_failures = 0,
              !.last_successful_number = s.current_number,
              !.current_number = @ + 1,
              !.at = "sleep"]

\* run_scraper, lines 188-255 without the alternate fetch: the locals after
\* scrape_case(case_number) returned `status`; `saved` is whether save_html
\* returned a json_path.
after_scrape(s, status, saved) ==
    LET case_number == CurrentCaseNumber(s)
        result == [status |-> status, case_number |-> case_number]
    IN IF HardFailure(status) THEN StopHard(s, result)
       ELSE IF status = "success"
            THEN IF ~saved
                 THEN StopHard(s, [status |-> "save_parse_error",
                                   case_number |-> case_number])
                 ELSE RecordSuccess(s, result, s.current_prefix)
       ELSE IF status = "no_results"
            THEN IF get_alternate_prefix(s.current_prefix) # "None"
                    /\ s.case_type = "criminal"
                 THEN [s EXCEPT !.at = "alternate"]
                 ELSE CountNoResults(s)
       ELSE StopHard(s, result)

\* Mutant of after_alternate: the outcome of save_html is not checked
after_alternate_SaveUnchecked(s, status, saved) ==
    LET alt_case_number == AlternateCaseNumber(s)
        alt_result == [status |-> status, case_number |-> alt_case_number]
    IN IF HardFailure(status) THEN StopHard(s, alt_result)
       ELSE IF status = "success"
            THEN RecordSuccess(s, alt_result, get_alternate_prefix(s.current_prefix))
       ELSE CountNoResults(s)

\* Mutant of after_alternate: a miss on the alternate prefix switches to it
after_alternate_SwitchOnMiss(s, status, saved) ==
    LET alt_case_number == AlternateCaseNumber(s)
        alt_result == [status |-> status, case_number |-> alt_case_number]
    IN IF HardFailure(status) THEN StopHard(s, alt_result)
       ELSE IF status = "success"
            THEN IF ~saved
                 THEN StopHard(s, [status |-> "save_parse_error",
                                   case_number |-> alt_case_number])
                 ELSE RecordSuccess(s, alt_result, get_alternate_prefix(s.current_prefix))
       ELSE [CountNoResults(s) EXCEPT
                !.current_prefix = get_alternate_prefix(s.current_prefix)]

\* run_scraper, lines 218-245: the locals after scrape_case(alt_case_number)
\* returned `status`
after_alternate(s, status, saved) ==
    LET alt_case_number == AlternateCaseNumber(s)
        alt_result == [status |-> status, case_number |-> alt_case_number]
    IN IF HardFailure(status) THEN StopHard(s, alt_result)
       ELSE IF status = "success"
            THEN IF ~saved
                 THEN StopHard(s, [status |-> "save_parse_error",
                                   case_number |-> alt_case_number])
                 ELSE RecordSuccess(s, alt_result, get_alternate_prefix(s.current_prefix))
       ELSE CountNoResults(s)

\* Mutant of after_sleep: the loop goes on at the threshold
after_sleep_OffByOne(s) ==
    IF s.consecutive_failures <= max_consecutive_failures
    THEN [s EXCEPT !.at = "scrape"]
    ELSE [s EXCEPT !.at = "returned"]

\* Mutant of after_sleep: the loop never looks at its condition again
after_sleep_Hang(s) == [s EXCEPT !.at = "hung"]

\* asyncio.sleep(2), then the loop condition (lines 257, 185, 259-260)
after_sleep(s) ==
    IF s.consecutive_failures < max_consecutive_failures
    THEN [s EXCEPT !.at = "scrape"]
    ELSE [s EXCEPT !.at = "returned"]


\* save_html: the normalized record written for a fetched case.  The parser
\* takes the identity section from the document (`name` is the person the
\* document names); court and state come from the config.
ParsedRecord(case_number, name, config) ==
    [state |-> Get(config, "state", "VA"),
     court_name |-> Get(config, "courtName", "Radford General District Court"),
     searchFipsCode |-> PyInt(Get(config, "searchFipsCode", IntV(0))),
     download_date |-> "today"]
    @@ ("Case/Defendant Information" :>
            ([Name |-> name, Locality |-> <<"L">>, Address |-> <<"X">>,
              Gender |-> <<"M">>, DOB |-> <<"1">>]
             @@ ("Case Number" :> case_number) @@ ("Filed Date" :> <<"1">>)))
    @@ ("Charge Information" :> [Charge |-> <<"c">>])
    @@ ("Hearing Information" :> <<[Result |-> <<"r">>]>>)
    @@ ("Disposition Information" :> [Sentence |-> <<"s">>])

\* ------------------------------------------------- the artifact tree
EmptyDirs == [jsondata |-> <<>>, groupeddata |-> <<>>, processeddata |-> <<>>]

\* manage_processed_data(): groupeddata/*.json moves to processeddata; a name
\* already there gets the timestamp (to the second) appended
manage_processed_data(dirs, time_now) ==
    LET files == DOMAIN dirs.groupeddata
        held == DOMAIN dirs.processeddata
        Dst(f) == IF [name |-> f, stamp |-> -1] \in held
                  THEN [name |-> f, stamp |-> time_now]
                  ELSE [name |-> f, stamp |-> -1]
        moved == {Dst(f) : f \in files}
    IN [dirs EXCEPT
          !.processeddata = [k \in held \cup moved |->
                               IF k \in moved THEN dirs.groupeddata[k.name]
                               ELSE dirs.processeddata[k]],
          !.groupeddata = <<>>]

\* os.listdir: the names of a directory in an order the file system chooses
RECURSIVE Orderings(_)
Orderings(S) ==
    IF S = {} THEN {<<>>}
    ELSE UNION {{<<x>> \o rest : rest \in Orderings(S \ {x})} : x \in S}

\* The files of jsondata in a given order; a file is [ok, data], ok being
\* whether json.load reads it
Listing(jsondata, order) == [i \in 1..Len(order) |-> jsondata[order[i]]]

\* The file save_parsed_json writes
JsonFile(record) == [ok |-> TRUE, data |-> record]

\* ---------------------------------------------------------- the queue
\* The docket number the queue stores, sent as an int or zero-padded
Stored(n, as_str) == IF as_str THEN StrV(zfill(PyStr(n), 6)) ELSE IntV(n)
StoredNumbers == {Stored(n, as_str) : n \in 0..MaxStored, as_str \in BOOLEAN}
DocketTypes == {"GV", "GC", "GT", "gt"}
\* The person the court site's document for docket `number` names
SiteName(number) == IF number % 2 = 0 THEN <<"A">> ELSE <<"B">>

\* A job descriptor as the queue sends it (courtOfficeDetails)
MkJob(with_state, county_no, docket_number, docket_type) ==
    LET base == [countyNo |-> county_no,
                 countyName |-> "Accomack",
                 docketNumber |-> docket_number,
                 docketYear |-> IntV(2025),
                 docketType |-> docket_type]
    IN IF with_state
       THEN base @@ [stateName |-> "VIRGINIA", stateAbbreviation |-> "VA"]
       ELSE base

\* The queue sends the state fields together with an int county number, or
\* neither state field with a zero-padded county string
JobDescriptors ==
    {MkJob(ws, IF ws THEN IntV(1) ELSE StrV(<<"0", "0", "1">>), n, dt) :
        ws \in BOOLEAN, n \in StoredNumbers, dt \in DocketTypes}

Trees == {output_dir(normalize_config_from_api(j)) : j \in JobDescriptors}

\* What the fetch collaborator (scrape_case) can return for docket `number`
FetchStatuses(number) ==
    {"no_results", "error", "timeout"}
    \cup (IF number <= MaxDocket THEN {"success"} ELSE {})

\* The docket sequence inside a case number "XXyyNNNNNN-00"
NumberOfCase(case_number) == IntOfStr(SubSeq(case_number, 5, 10))

\* The docket sequences with a success entry in `rs`
SuccessNumbers(rs) ==
    {NumberOfCase(rs[i].case_number) : i \in {j \in 1..Len(rs) : rs[j].status = "success"}}

\* ------------------------------------------------------------------ state
VARIABLES
    pc,                       \* position of main(): start, fetch_job, run_scraper,
                              \* report, insert, vpn, done, crashed
    now,                      \* time.time(), seconds
    last_vpn_reconnect_time,  \* global of main.py; -1 models None
    queue,                    \* the external job queue, head first
    original_config,          \* main(): the descriptor as fetched
    config,                   \* main(): the normalized config
    OUTPUT_DIR,               \* global of main.py
    scraper,                  \* the locals of run_scraper
    results,                  \* main(): returned by run_scraper
    last_successful_number,   \* main(): returned by run_scraper
    error_occurred,           \* main(): returned by run_scraper, set by insert
    grouped_results,          \* main()
    disk,                     \* artifact tree -> its directories
    jobs_fetched,             \* history: number of jobs fetched so far
    fetch_log,                \* history: the scrape_case calls of this job
    api_calls,                \* history: the queue/database calls of this job
    vpn_log,                  \* history: the reconnects, the last decision and
                              \* when the last reconnect completed
    queue_note,               \* history: per queue entry, where it came from
    job_note,                 \* history: queue_note of the job in progress
    delays,                   \* history: the asyncio.sleep(2) calls of run_scraper
                              \* that returned in this job
    listdir_log,              \* history: what os.listdir(json_dir) returned to
                              \* the aggregation passes of this job
    inserted                  \* history: the case numbers of the merged records
                              \* the database accepted, with the job's tree

vars == <<pc, now, last_vpn_reconnect_time, queue, original_config, config,
          OUTPUT_DIR, scraper, results, last_successful_number, error_occurred,
          grouped_results, disk, jobs_fetched, fetch_log, api_calls, vpn_log,
          queue_note, job_note, delays, listdir_log, inserted>>

IdleScraper ==
    [at |-> "idle", case_type |-> "civil", docket_year |-> <<>>, start_number |-> 0,
     results |-> <<>>, current_prefix |-> "GV", current_number |-> 0,
     last_successful_number |-> -1, consecutive_failures |-> 0,
     error_occurred |-> FALSE]

\* The note of a job the queue holds at the start: `stored` is the docket
\* number it stores; a recovery job also notes the sequence that failed and
\* the sequences that succeeded (`done`) in the jobs it continues
FirstNote(n) == [recovery |-> FALSE, stored |-> n, failed |-> 0, done |-> {}]

Init ==
    /\ pc = "start"
    /\ now = 0
    /\ last_vpn_reconnect_time = -1
    /\ \E ws \in BOOLEAN, n \in 0..MaxStored, as_str \in BOOLEAN, dt \in DocketTypes :
          /\ queue = <<MkJob(ws, IF ws THEN IntV(1) ELSE StrV(<<"0", "0", "1">>),
                             Stored(n, as_str), dt)>>
          /\ queue_note = <<FirstNote(n)>>
    /\ original_config = <<>>
    /\ config = <<>>
    /\ OUTPUT_DIR = [state |-> "None", county |-> "None", folder |-> "None"]
    /\ scraper = IdleScraper
    /\ results = <<>>
    /\ last_successful_number = 0
    /\ error_occurred = FALSE
    /\ grouped_results = <<>>
    /\ disk = [t \in Trees |-> EmptyDirs]
    /\ jobs_fetched = 0
    /\ fetch_log = <<>>
    /\ api_calls = <<>>
    /\ vpn_log = [reconnects |-> 0, decided |-> FALSE, job_error |-> FALSE,
                  elapsed |-> 0, reconnected |-> FALSE, completed |-> -1]
    /\ job_note = FirstNote(0)
    /\ delays = 0
    /\ listdir_log = <<>>
    /\ inserted = {}


\* ---------------------------------------------------------------- actions
\* Mutant of InitializeVpn: the process starts without a rotation
InitializeVpn_Lazy ==
    /\ pc = "start"
    /\ pc' = "fetch_job"
    /\ UNCHANGED <<delays, listdir_log, inserted, now, last_vpn_reconnect_time,
                   vpn_log, queue, original_config, config, OUTPUT_DIR, scraper,
                   results, last_successful_number, error_occurred,
                   grouped_results, disk, jobs_fetched, fetch_log, api_calls,
                   queue_note, job_note>>

\* How long vpn_manager.reconnect() may take, in seconds
ReconnectSeconds == {0, TickSeconds}

\* initialize_vpn(): the rotation at process start; time.time() is read when
\* reconnect() has returned
InitializeVpn ==
    /\ pc = "start"
    /\ \E d \in ReconnectSeconds :
          /\ now + d <= MaxClock
          /\ now' = now + d
          /\ last_vpn_reconnect_time' = now + d
          /\ vpn_log' = [vpn_log EXCEPT !.reconnects = @ + 1, !.completed = now + d]
    /\ pc' = "fetch_job"
    /\ UNCHANGED <<delays, listdir_log, inserted, queue, original_config,
                   config, OUTPUT_DIR, scraper, results, last_successful_number,
                   error_occurred, grouped_results, disk, jobs_fetched,
                   fetch_log, api_calls, queue_note, job_note>>

\* Mutant of FetchNoJob: an exception of the fetch call is taken as an errored
\* iteration, and the loop goes on to the rotation step and the next fetch
FetchNoJob_Retry ==
    /\ pc = "fetch_job"
    /\ \E response \in {"code_202", "no_details", "exception"} :
          /\ response = "code_202" => queue = <<>>
          /\ pc' = IF response = "exception" THEN "vpn" ELSE "done"
    /\ UNCHANGED <<delays, listdir_log, inserted, now, last_vpn_reconnect_time,
                   queue, original_config, config, OUTPUT_DIR, scraper, results,
                   last_successful_number, error_occurred, grouped_results,
                   disk, jobs_fetched, fetch_log, api_calls, vpn_log,
                   queue_note, job_note>>

\* main(), lines 334-340: fetch_job_from_api() returned no job (code 202 on
\* an empty queue, a response without courtOfficeDetails, or an exception)
FetchNoJob ==
    /\ pc = "fetch_job"
    /\ \E response \in {"code_202", "no_details", "exception"} :
          /\ response = "code_202" => queue = <<>>
          /\ pc' = "done"
    /\ UNCHANGED <<delays, listdir_log, inserted, now, last_vpn_reconnect_time,
                   queue, original_config, config, OUTPUT_DIR, scraper, results,
                   last_successful_number, error_occurred, grouped_results,
                   disk, jobs_fetched, fetch_log, api_calls, vpn_log,
                   queue_note, job_note>>

\* main(), lines 334-381 up to the first fetch: a job is taken from the
\* queue, normalized, the previous merged output is moved aside and
\* run_scraper sets up its locals
FetchJob ==
    /\ pc = "fetch_job"
    /\ queue # <<>>
    /\ jobs_fetched < MaxJobs
    /\ LET job_config == Head(queue)
           cfg == normalize_config_from_api(job_config)
           dir == output_dir(cfg)
       IN /\ queue' = Tail(queue)
          /\ queue_note' = Tail(queue_note)
          /\ job_note' = Head(queue_note)
          /\ original_config' = job_config
          /\ config' = cfg
          /\ OUTPUT_DIR' = dir
          /\ disk' = [disk EXCEPT ![dir] = manage_processed_data(@, now)]
          /\ IF PyIntOk(Get(cfg, "docketNumber", IntV(0)))
             THEN /\ scraper' = run_scraper_init(VirginiaScraper_init(cfg))
                  /\ pc' = "run_scraper"
             ELSE /\ scraper' = IdleScraper
                  /\ pc' = "crashed"
    /\ jobs_fetched' = jobs_fetched + 1
    /\ fetch_log' = <<>>
    /\ api_calls' = <<>>
    /\ delays' = 0
    /\ listdir_log' = <<>>
    /\ UNCHANGED <<inserted, now, last_vpn_reconnect_time, results,
                   last_successful_number, error_occurred, grouped_results,
                   vpn_log>>

\* run_scraper: scrape_case(case_number, current_prefix) returns and the
\* loop body handles the result, up to the next await
ScrapeCase ==
    /\ pc = "run_scraper"
    /\ scraper.at = "scrape"
    /\ \E status \in FetchStatuses(scraper.current_number), saved \in BOOLEAN :
          LET case_number == CurrentCaseNumber(scraper)
              name == SiteName(scraper.current_number)
          IN
          /\ scraper' = after_scrape(scraper, status, saved)
          /\ fetch_log' = Append(fetch_log,
                 [case_number |-> case_number, prefix |-> scraper.current_prefix,
                  number |-> scraper.current_number, status |-> status,
                  saved |-> status = "success" /\ saved,
                  delays |-> delays, alternate |-> FALSE])
          /\ disk' = IF status = "success" /\ saved
                     THEN [disk EXCEPT ![OUTPUT_DIR].jsondata =
                              Put(@, case_number,
                                  JsonFile(ParsedRecord(case_number, name, config)))]
                     ELSE disk
    /\ UNCHANGED <<delays, listdir_log, inserted, pc, now,
                   last_vpn_reconnect_time, queue, original_config, config,
                   OUTPUT_DIR, results, last_successful_number, error_occurred,
                   grouped_results, jobs_fetched, api_calls, vpn_log,
                   queue_note, job_note>>

\* run_scraper: scrape_case(alt_case_number, alternate_prefix) returns
ScrapeAlternate ==
    /\ pc = "run_scraper"
    /\ scraper.at = "alternate"
    /\ \E status \in FetchStatuses(scraper.current_number), saved \in BOOLEAN :
          LET alt_case_number == AlternateCaseNumber(scraper)
              name == SiteName(scraper.current_number)
          IN
          /\ scraper' = after_alternate(scraper, status, saved)
          /\ fetch_log' = Append(fetch_log,
                 [case_number |-> alt_case_number,
                  prefix |-> get_alternate_prefix(scraper.current_prefix),
                  number |-> scraper.current_number, status |-> status,
                  saved |-> status = "success" /\ saved,
                  delays |-> delays, alternate |-> TRUE])
          /\ disk' = IF status = "success" /\ saved
                     THEN [disk EXCEPT ![OUTPUT_DIR].jsondata =
                              Put(@, alt_case_number,
                                  JsonFile(ParsedRecord(alt_case_number, name, config)))]
                     ELSE disk
    /\ UNCHANGED <<delays, listdir_log, inserted, pc, now,
                   last_vpn_reconnect_time, queue, original_config, config,
                   OUTPUT_DIR, results, last_successful_number, error_occurred,
                   grouped_results, jobs_fetched, api_calls, vpn_log,
                   queue_note, job_note>>

\* run_scraper: asyncio.sleep(2) at the end of the loop body returns
Sleep ==
    /\ pc = "run_scraper"
    /\ scraper.at = "sleep"
    /\ scraper' = after_sleep(scraper)
    /\ delays' = delays + 1
    /\ UNCHANGED <<listdir_log, inserted, pc, now, last_vpn_reconnect_time,
                   queue, original_config, config, OUTPUT_DIR, results,
                   last_successful_number, error_occurred, grouped_results,
                   disk, jobs_fetched, fetch_log, api_calls, vpn_log,
                   queue_note, job_note>>

\* Mutant of GroupAndMerge: the aggregation does not wait for the session to
\* return
GroupAndMerge_Early ==
    /\ pc = "run_scraper"
    /\ scraper.at \in {"sleep", "returned"}
    /\ results' = scraper.results
    /\ last_successful_number' = scraper.last_successful_number
    /\ error_occurred' = scraper.error_occurred
    /\ \E order \in Orderings(DOMAIN disk[OUTPUT_DIR].jsondata), raised \in BOOLEAN :
          LET listing == Listing(disk[OUTPUT_DIR].jsondata, order) IN
          /\ listdir_log' = Append(listdir_log, [order |-> order, raised |-> raised])
          /\ IF raised
             THEN /\ grouped_results' = <<>>
                  /\ disk' = disk
             ELSE /\ grouped_results' = group_and_merge_json_files(listing)
                  /\ disk' = [disk EXCEPT ![OUTPUT_DIR].groupeddata =
                                 WriteFiles(@, GroupedWrites(load_all_json_files(listing)))]
    /\ pc' = "report"
    /\ UNCHANGED <<delays, inserted, now, last_vpn_reconnect_time, queue,
                   original_config, config, OUTPUT_DIR, scraper, jobs_fetched,
                   fetch_log, api_calls, vpn_log, queue_note, job_note>>

\* main(), lines 381-398: run_scraper returned; the job's records are
\* grouped and merged (an exception leaves grouped_results empty)
GroupAndMerge ==
    /\ pc = "run_scraper"
    /\ scraper.at = "returned"
    /\ results' = scraper.results
    /\ last_successful_number' = scraper.last_successful_number
    /\ error_occurred' = scraper.error_occurred
    /\ \E order \in Orderings(DOMAIN disk[OUTPUT_DIR].jsondata), raised \in BOOLEAN :
          LET listing == Listing(disk[OUTPUT_DIR].jsondata, order) IN
          /\ listdir_log' = Append(listdir_log, [order |-> order, raised |-> raised])
          /\ IF raised
             THEN /\ grouped_results' = <<>>
                  /\ disk' = disk
             ELSE /\ grouped_results' = group_and_merge_json_files(listing)
                  /\ disk' = [disk EXCEPT ![OUTPUT_DIR].groupeddata =
                                 WriteFiles(@, GroupedWrites(load_all_json_files(listing)))]
    /\ pc' = "report"
    /\ UNCHANGED <<delays, inserted, now, last_vpn_reconnect_time, queue,
                   original_config, config, OUTPUT_DIR, scraper, jobs_fetched,
                   fetch_log, api_calls, vpn_log, queue_note, job_note>>

\* Mutant of Report: an exception of the queue call ends the process
Report_Crash ==
    /\ pc = "report"
    /\ \E ok \in BOOLEAN :
          IF error_occurred
          THEN LET job == recovery_job(original_config, last_successful_number) IN
               /\ api_calls' = Append(api_calls,
                      [api |-> "add_job_to_queue", ok |-> ok, body |-> job])
               /\ queue' = IF ok THEN Append(queue, job) ELSE queue
               /\ queue_note' =
                      IF ok
                      THEN Append(queue_note,
                             [recovery |-> TRUE,
                              stored |-> last_successful_number,
                              failed |-> fetch_log[Len(fetch_log)].number,
                              done |-> job_note.done \cup SuccessNumbers(results)])
                      ELSE queue_note
          ELSE /\ api_calls' = Append(api_calls,
                      [api |-> "update_docket_number", ok |-> ok,
                       body |-> update_docket_args(original_config,
                                                   last_successful_number)])
               /\ UNCHANGED <<queue, queue_note>>
    /\ pc' = IF Len(api_calls') > Len(api_calls) /\ ~api_calls'[Len(api_calls')].ok
             THEN "crashed" ELSE "insert"
    /\ UNCHANGED <<delays, listdir_log, inserted, now, last_vpn_reconnect_time,
                   original_config, config, OUTPUT_DIR, scraper, results,
                   last_successful_number, error_occurred, grouped_results,
                   disk, jobs_fetched, fetch_log, vpn_log, job_note>>

\* main(), lines 400-442: the recovery job is requeued, or the watermark is
\* updated; an exception of the call is logged
Report ==
    /\ pc = "report"
    /\ \E ok \in BOOLEAN :
          IF error_occurred
          THEN LET job == recovery_job(original_config, last_successful_number) IN
               /\ api_calls' = Append(api_calls,
                      [api |-> "add_job_to_queue", ok |-> ok, body |-> job])
               /\ queue' = IF ok THEN Append(queue, job) ELSE queue
               /\ queue_note' =
                      IF ok
                      THEN Append(queue_note,
                             [recovery |-> TRUE,
                              stored |-> last_successful_number,
                              failed |-> fetch_log[Len(fetch_log)].number,
                              done |-> job_note.done \cup SuccessNumbers(results)])
                      ELSE queue_note
          ELSE /\ api_calls' = Append(api_calls,
                      [api |-> "update_docket_number", ok |-> ok,
                       body |-> update_docket_args(original_config,
                                                   last_successful_number)])
               /\ UNCHANGED <<queue, queue_note>>
    /\ pc' = "insert"
    /\ UNCHANGED <<delays, listdir_log, inserted, now, last_vpn_reconnect_time,
                   original_config, config, OUTPUT_DIR, scraper, results,
                   last_successful_number, error_occurred, grouped_results,
                   disk, jobs_fetched, fetch_log, vpn_log, job_note>>

\* The case numbers a merged record carries: the tags of its section entries
\* and the case number of its header section
MergedCaseNumbers(merged) ==
    {merged.charges[i]["case_number"] : i \in 1..Len(merged.charges)}
    \cup {merged.hearings[i]["case_number"] : i \in 1..Len(merged.hearings)}
    \cup {merged.dispositions[i]["case_number"] : i \in 1..Len(merged.dispositions)}
    \cup {InfoField(merged.docket_information, "Case Number", "Case Number ")}

\* The case numbers of a sequence of merged records
SubmittedCaseNumbers(records) ==
    UNION {MergedCaseNumbers(records[i]) : i \in 1..Len(records)}

\* The case numbers of a submission, each with the artifact tree of its job
InsertedFrom(tree, records) ==
    {[tree |-> tree, case_number |-> cn] : cn \in SubmittedCaseNumbers(records)}

\* Mutant of Insert: a failed submission leaves error_occurred as it was
Insert_KeepsFlag ==
    /\ pc = "insert"
    /\ \E ok \in BOOLEAN :
          IF grouped_results # <<>>
          THEN /\ api_calls' = Append(api_calls,
                      [api |-> "insert_records", ok |-> ok, body |-> grouped_results])
               /\ error_occurred' = error_occurred
               /\ inserted' = IF ok
                              THEN inserted \cup InsertedFrom(OUTPUT_DIR, grouped_results)
                              ELSE inserted
          ELSE UNCHANGED <<api_calls, error_occurred, inserted>>
    /\ pc' = "vpn"
    /\ UNCHANGED <<delays, listdir_log, now, last_vpn_reconnect_time, queue,
                   original_config, config, OUTPUT_DIR, scraper, results,
                   last_successful_number, grouped_results, disk, jobs_fetched,
                   fetch_log, vpn_log, queue_note, job_note>>

\* Mutant of Insert: the merged records of a session that ended in error are
\* not submitted
Insert_CleanOnly ==
    /\ pc = "insert"
    /\ \E ok \in BOOLEAN :
          IF grouped_results # <<>> /\ ~error_occurred
          THEN /\ api_calls' = Append(api_calls,
                      [api |-> "insert_records", ok |-> ok, body |-> grouped_results])
               /\ error_occurred' = IF ok THEN error_occurred ELSE TRUE
               /\ inserted' = IF ok
                              THEN inserted \cup InsertedFrom(OUTPUT_DIR, grouped_results)
                              ELSE inserted
          ELSE UNCHANGED <<api_calls, error_occurred, inserted>>
    /\ pc' = "vpn"
    /\ UNCHANGED <<delays, listdir_log, now, last_vpn_reconnect_time, queue,
                   original_config, config, OUTPUT_DIR, scraper, results,
                   last_successful_number, grouped_results, disk, jobs_fetched,
                   fetch_log, vpn_log, queue_note, job_note>>

\* main(), lines 444-457: the merged records are submitted to bulk insert
Insert ==
    /\ pc = "insert"
    /\ \E ok \in BOOLEAN :
          IF grouped_results # <<>>
          THEN /\ api_calls' = Append(api_calls,
                      [api |-> "insert_records", ok |-> ok, body |-> grouped_results])
               /\ error_occurred' = IF ok THEN error_occurred ELSE TRUE
               /\ inserted' = IF ok
                              THEN inserted \cup InsertedFrom(OUTPUT_DIR, grouped_results)
                              ELSE inserted
          ELSE UNCHANGED <<api_calls, error_occurred, inserted>>
    /\ pc' = "vpn"
    /\ UNCHANGED <<delays, listdir_log, now, last_vpn_reconnect_time, queue,
                   original_config, config, OUTPUT_DIR, scraper, results,
                   last_successful_number, grouped_results, disk, jobs_fetched,
                   fetch_log, vpn_log, queue_note, job_note>>

\* Mutant of VpnStep: the timestamp is the time of the decision, not the
\* time at which reconnect() returned
VpnStep_StampAtDecision ==
    /\ pc = "vpn"
    /\ IF needs_vpn_reconnect(error_occurred, last_vpn_reconnect_time, now)
       THEN \E d \in ReconnectSeconds :
               /\ now + d <= MaxClock
               /\ now' = now + d
               /\ last_vpn_reconnect_time' = now
               /\ vpn_log' = [reconnects |-> vpn_log.reconnects + 1,
                              decided |-> TRUE,
                              job_error |-> error_occurred,
                              elapsed |-> now - last_vpn_reconnect_time,
                              reconnected |-> TRUE,
                              completed |-> now + d]
       ELSE /\ now' = now
            /\ last_vpn_reconnect_time' = last_vpn_reconnect_time
            /\ vpn_log' = [vpn_log EXCEPT !.decided = TRUE,
                                          !.job_error = error_occurred,
                                          !.elapsed = now - last_vpn_reconnect_time,
                                          !.reconnected = FALSE]
    /\ pc' = "fetch_job"
    /\ UNCHANGED <<delays, listdir_log, inserted, queue, original_config,
                   config, OUTPUT_DIR, scraper, results, last_successful_number,
                   error_occurred, grouped_results, disk, jobs_fetched,
                   fetch_log, api_calls, queue_note, job_note>>

\* main(), lines 463-484: the rotation decision, the reconnect if needed
\* (reconnect_vpn_if_needed reads time.time() when reconnect() has returned),
\* and the delay before the next job
VpnStep ==
    /\ pc = "vpn"
    /\ IF needs_vpn_reconnect(error_occurred, last_vpn_reconnect_time, now)
       THEN \E d \in ReconnectSeconds :
               /\ now + d <= MaxClock
               /\ now' = now + d
               /\ last_vpn_reconnect_time' = now + d
               /\ vpn_log' = [reconnects |-> vpn_log.reconnects + 1,
                              decided |-> TRUE,
                              job_error |-> error_occurred,
                              elapsed |-> now - last_vpn_reconnect_time,
                              reconnected |-> TRUE,
                              completed |-> now + d]
       ELSE /\ now' = now
            /\ last_vpn_reconnect_time' = last_vpn_reconnect_time
            /\ vpn_log' = [vpn_log EXCEPT !.decided = TRUE,
                                          !.job_error = error_occurred,
                                          !.elapsed = now - last_vpn_reconnect_time,
                                          !.reconnected = FALSE]
    /\ pc' = "fetch_job"
    /\ UNCHANGED <<delays, listdir_log, inserted, queue, original_config,
                   config, OUTPUT_DIR, scraper, results, last_successful_number,
                   error_occurred, grouped_results, disk, jobs_fetched,
                   fetch_log, api_calls, queue_note, job_note>>

\* Wall-clock time passes while the worker waits (a fetch, a sleep, a call)
Tick ==
    /\ pc = "vpn"
    /\ now + TickSeconds <= MaxClock
    /\ now' = now + TickSeconds
    /\ UNCHANGED <<delays, listdir_log, inserted, pc, last_vpn_reconnect_time,
                   queue, original_config, config, OUTPUT_DIR, scraper, results,
                   last_successful_number, error_occurred, grouped_results,
                   disk, jobs_fetched, fetch_log, api_calls, vpn_log,
                   queue_note, job_note>>

Next ==
    \/ InitializeVpn
    \/ FetchNoJob
    \/ FetchJob
    \/ ScrapeCase
    \/ ScrapeAlternate
    \/ Sleep
    \/ GroupAndMerge
    \/ Report
    \/ Insert
    \/ VpnStep
    \/ Tick

Spec == Init /\ [][Next]_vars

\* A status of scrape_case's result that run_scraper has no branch of its
\* own for: what the `else:` of line 251 logs as "Unexpected status" and the
\* `else:` of line 241 receives besides no_results
UnexpectedStatuses == {"unexpected"}

\* run_scraper: scrape_case(case_number, current_prefix) returns a result
\* whose status is none of success, no_results, error, timeout
ScrapeCaseUnexpected ==
    /\ pc = "run_scraper"
    /\ scraper.at = "scrape"
    /\ \E status \in UnexpectedStatuses :
          /\ scraper' = after_scrape(scraper, status, FALSE)
          /\ fetch_log' = Append(fetch_log,
                 [case_number |-> CurrentCaseNumber(scraper),
                  prefix |-> scraper.current_prefix,
                  number |-> scraper.current_number, status |-> status,
                  saved |-> FALSE, delays |-> delays, alternate |-> FALSE])
    /\ UNCHANGED <<disk, delays, listdir_log, inserted, pc, now,
                   last_vpn_reconnect_time, queue, original_config, config,
                   OUTPUT_DIR, results, last_successful_number, error_occurred,
                   grouped_results, jobs_fetched, api_calls, vpn_log,
                   queue_note, job_note>>

\* run_scraper: scrape_case(alt_case_number, alternate_prefix) returns a
\* result whose status is none of success, no_results, error, timeout
ScrapeAlternateUnexpected ==
    /\ pc = "run_scraper"
    /\ scraper.at = "alternate"
    /\ \E status \in UnexpectedStatuses :
          /\ scraper' = after_alternate(scraper, status, FALSE)
          /\ fetch_log' = Append(fetch_log,
                 [case_number |-> AlternateCaseNumber(scraper),
                  prefix |-> get_alternate_prefix(scraper.current_prefix),
                  number |-> scraper.current_number, status |-> status,
                  saved |-> FALSE, delays |-> delays, alternate |-> TRUE])
    /\ UNCHANGED <<disk, delays, listdir_log, inserted, pc, now,
                   last_vpn_reconnect_time, queue, original_config, config,
                   OUTPUT_DIR, results, last_successful_number, error_occurred,
                   grouped_results, jobs_fetched, api_calls, vpn_log,
                   queue_note, job_note>>

NextStatus ==
    \/ Next
    \/ ScrapeCaseUnexpected
    \/ ScrapeAlternateUnexpected

\* The worker with a fetch collaborator whose result may carry a status
\* outside the four that scrape_case builds
SpecStatus == Init /\ [][NextStatus]_vars

\* The worker under the scheduling of asyncio.run(main()): main() is the only
\* coroutine of the event loop, so an await of run_scraper that can return
\* (scrape_case, whose page waits carry timeouts, and asyncio.sleep) does
\* return and the loop body goes on
SpecLive ==
    /\ Init /\ [][Next]_vars
    /\ WF_vars(ScrapeCase)
    /\ WF_vars(ScrapeAlternate)
    /\ WF_vars(Sleep)


\* ------------------------------------------- aggregation passes (SpecAgg)
\* The raw record files an aggregation pass may find in jsondata.  File i is
\* named by the case number it was fetched for; what the parser took from the
\* document varies: the filed date, the person (name "A" also occurs under the
\* key "Name " with a trailing blank), whether a case number was found, and the
\* sections (filled, present with blank fields, or absent).  A file may also
\* be unreadable.
RawChoices ==
    {c \in [ok : BOOLEAN, filed : {<<"1">>, <<"2">>}, name : {"A", "A_", "B"},
            has_cn : BOOLEAN, sections : {"full", "blank", "none"}] :
        ~c.ok => (c.filed = <<"1">> /\ c.name = "A" /\ c.has_cn /\ c.sections = "full")}

RawCaseNumber(i) == build_case_number("GC", <<"2", "5">>, PyStr(i))

RawRecord(i, c) ==
    LET identity == [Locality |-> <<"L">>, Address |-> <<"X">>, Gender |-> <<"M">>,
                     DOB |-> <<"1">>] @@ ("Filed Date" :> c.filed)
        named == CASE c.name = "A" -> identity @@ [Name |-> <<"A">>]
                   [] c.name = "A_" -> identity @@ ("Name " :> <<"A", " ">>)
                   [] c.name = "B" -> identity @@ [Name |-> <<"B">>]
        info == IF c.has_cn THEN named @@ ("Case Number" :> RawCaseNumber(i)) ELSE named
        header == [state |-> "VA", court_name |-> "Accomack", searchFipsCode |-> 1,
                   download_date |-> PyStr(i)]
                  @@ ("Case/Defendant Information" :> info)
    IN CASE c.sections = "full" ->
              header @@ ("Charge Information" :> [Charge |-> <<"c">>])
                     @@ ("Hearing Information" :> <<[Result |-> <<"r">>]>>)
                     @@ ("Disposition Information" :> [Sentence |-> <<"s">>])
         [] c.sections = "blank" ->
              header @@ ("Charge Information" :> [Charge |-> <<>>])
                     @@ ("Hearing Information" :> <<[Result |-> <<>>]>>)
                     @@ ("Disposition Information" :> [Sentence |-> <<>>])
         [] c.sections = "none" ->
              header @@ ("Hearing Information" :> <<>>)

RawFile(i, c) == IF c.ok THEN JsonFile(RawRecord(i, c)) ELSE [ok |-> FALSE, data |-> <<>>]

RECURSIVE RawDir(_, _)
RawDir(cs, k) ==
    IF k = 0 THEN <<>> ELSE Put(RawDir(cs, k - 1), RawCaseNumber(k), RawFile(k, cs[k]))

AggTree == [state |-> "VA", county |-> "Accomack", folder |-> "GC"]

AggJob == MkJob(TRUE, IntV(1), IntV(0), "GC")

\* run_scraper has returned; jsondata holds the files of the pass
InitAgg ==
    /\ pc = "run_scraper"
    /\ now = 0
    /\ last_vpn_reconnect_time = 0
    /\ queue = <<>>
    /\ queue_note = <<>>
    /\ original_config = AggJob
    /\ config = normalize_config_from_api(AggJob)
    /\ OUTPUT_DIR = AggTree
    /\ scraper = [run_scraper_init(
                     VirginiaScraper_init(normalize_config_from_api(AggJob)))
                    EXCEPT !.at = "returned", !.consecutive_failures = 1,
                           !.current_number = 2]
    /\ results = <<>>
    /\ last_successful_number = 0
    /\ error_occurred = FALSE
    /\ grouped_results = <<>>
    /\ \E k \in 0..MaxFiles : \E cs \in [1..k -> RawChoices] :
          disk = [t \in Trees |->
                    IF t = AggTree THEN [EmptyDirs EXCEPT !.jsondata = RawDir(cs, k)]
                    ELSE EmptyDirs]
    /\ jobs_fetched = 1
    /\ fetch_log = <<>>
    /\ api_calls = <<>>
    /\ vpn_log = [reconnects |-> 1, decided |-> FALSE, job_error |-> FALSE,
                  elapsed |-> 0, reconnected |-> FALSE, completed |-> 0]
    /\ job_note = FirstNote(0)
    /\ delays = 0
    /\ listdir_log = <<>>
    /\ inserted = {}

NextAgg == GroupAndMerge

SpecAgg == InitAgg /\ [][NextAgg]_vars

\* ------------------------------------- a pass run twice (SpecRerun)
\* group_and_merge_json_files(JSON_DIR) called again while jsondata is
\* unchanged: os.listdir returns the files as it did to the first pass
GroupAndMergeAgain ==
    /\ pc = "report"
    /\ Len(listdir_log) = 1
    /\ ~listdir_log[1].raised
    /\ grouped_results' = group_and_merge_json_files(
                              Listing(disk[OUTPUT_DIR].jsondata, listdir_log[1].order))
    /\ disk' = [disk EXCEPT ![OUTPUT_DIR].groupeddata =
                   WriteFiles(@, GroupedWrites(load_all_json_files(
                       Listing(disk[OUTPUT_DIR].jsondata, listdir_log[1].order))))]
    /\ listdir_log' = Append(listdir_log, listdir_log[1])
    /\ UNCHANGED <<delays, pc, now, last_vpn_reconnect_time, queue,
                   original_config, config, OUTPUT_DIR, scraper, results,
                   last_successful_number, error_occurred, jobs_fetched,
                   fetch_log, api_calls, vpn_log, queue_note, job_note,
                   inserted>>

NextRerun ==
    \/ GroupAndMerge
    \/ GroupAndMergeAgain

SpecRerun == InitAgg /\ [][NextRerun]_vars

\* ------------------------------------------------- normalization alone
\* The county numbers the queue sends (FIPS codes, three digits at most), as
\* an int, as a decimal string, zero-padded, or with blanks around it
CountyNumbers == {0, 1, 7, 51, 840, 999}

CountyValues ==
    UNION {{IntV(n), StrV(PyStr(n)), StrV(zfill(PyStr(n), 3)),
            StrV(<<" ">> \o PyStr(n) \o <<" ">>)} : n \in CountyNumbers}

\* The docket type codes in every letter case
CodesGV == {"GV", "Gv", "gV", "gv"}
CodesGC == {"GC", "Gc", "gC", "gc"}
CodesGT == {"GT", "Gt", "gT", "gt"}

NormDescriptors ==
    {MkJob(TRUE, c, IntV(0), dt) :
        c \in CountyValues, dt \in CodesGV \cup CodesGC \cup CodesGT}

InitNorm ==
    /\ pc = "fetch_job"
    /\ now = 0
    /\ last_vpn_reconnect_time = 0
    /\ \E d \in NormDescriptors : queue = <<d>>
    /\ queue_note = <<FirstNote(0)>>
    /\ original_config = <<>>
    /\ config = <<>>
    /\ OUTPUT_DIR = [state |-> "None", county |-> "None", folder |-> "None"]
    /\ scraper = IdleScraper
    /\ results = <<>>
    /\ last_successful_number = 0
    /\ error_occurred = FALSE
    /\ grouped_results = <<>>
    /\ disk = [t \in Trees |-> EmptyDirs]
    /\ jobs_fetched = 0
    /\ fetch_log = <<>>
    /\ api_calls = <<>>
    /\ vpn_log = [reconnects |-> 1, decided |-> FALSE, job_error |-> FALSE,
                  elapsed |-> 0, reconnected |-> FALSE, completed |-> 0]
    /\ job_note = FirstNote(0)
    /\ delays = 0
    /\ listdir_log = <<>>
    /\ inserted = {}

NextNorm == FetchJob

SpecNorm == InitNorm /\ [][NextNorm]_vars

\* ------------------------------------------------------------- properties
\* The docket sequences of this job's fetches that ended in a saved success
SavedNumbers ==
    {fetch_log[i].number : i \in {j \in 1..Len(fetch_log) : fetch_log[j].saved}}

MaxOf(S) == CHOOSE m \in S : \A x \in S : x <= m

ExpectedLast ==
    IF SavedNumbers = {} THEN scraper.start_number - 1 ELSE MaxOf(SavedNumbers)

\* C1: when run_scraper has returned, last_successful_number is the highest
\* docket sequence whose fetch (active or alternate prefix) ended in a saved
\* success, and start - 1 when no fetch did; main() receives that value.
C1_LastIsHighestSuccess ==
    /\ scraper.at = "returned" => scraper.last_successful_number = ExpectedLast
    /\ pc \in {"report", "insert", "vpn"} => last_successful_number = ExpectedLast

C1_Witness ==
    /\ scraper.at = "returned"
    /\ Cardinality(SavedNumbers) >= 2
    /\ \E i \in 1..Len(fetch_log) : fetch_log[i].saved /\ fetch_log[i].alternate

\* C2: a fetch that returns error or timeout (active or alternate prefix) is
\* the last fetch of the session; the session has returned with
\* error_occurred = TRUE and the failing result is the last of results.
C2_HardFailureStops ==
    \A i \in 1..Len(fetch_log) :
        fetch_log[i].status \in {"error", "timeout"} =>
            /\ i = Len(fetch_log)
            /\ scraper.at = "returned"
            /\ scraper.error_occurred
            /\ scraper.results # <<>>
            /\ scraper.results[Len(scraper.results)] =
                   [status |-> fetch_log[i].status,
                    case_number |-> fetch_log[i].case_number]

C2_Witness ==
    /\ Len(fetch_log) >= 3
    /\ fetch_log[Len(fetch_log)].alternate
    /\ fetch_log[Len(fetch_log)].status = "timeout"

\* C3: in a civil (GV) session a no_results fetch is the last fetch of the
\* session: no alternate prefix is tried, no fetch follows, the counter is at
\* the threshold 1 and error_occurred stays FALSE.
C3_CivilNoResultsEndsCleanly ==
    scraper.case_type = "civil" =>
        \A i \in 1..Len(fetch_log) :
            /\ ~fetch_log[i].alternate
            /\ fetch_log[i].prefix = "GV"
            /\ fetch_log[i].status = "no_results" =>
                  /\ i = Len(fetch_log)
                  /\ scraper.at \in {"sleep", "returned"}
                  /\ scraper.consecutive_failures = 1
                  /\ ~scraper.error_occurred

C3_Witness ==
    /\ scraper.case_type = "civil"
    /\ scraper.at = "returned"
    /\ Len(fetch_log) >= 2
    /\ fetch_log[Len(fetch_log)].status = "no_results"
    /\ ~scraper.error_occurred

\* The active-prefix fetch before fetch i (i > 1)
PrevPrimary(i) ==
    IF fetch_log[i - 1].alternate THEN fetch_log[i - 2] ELSE fetch_log[i - 1]

\* C4: a saved success of the alternate prefix at n follows a no_results of
\* the active prefix at n (GT after GC, GC after GT), and makes the alternate
\* the active prefix: the next fetch is that prefix at n+1.  The active prefix
\* changes only then, and is kept after a success of its own.
C4_PrefixSwitch ==
    \A i \in 1..Len(fetch_log) :
        LET e == fetch_log[i] IN
        /\ (e.alternate /\ e.saved) =>
              /\ i > 1
              /\ ~fetch_log[i - 1].alternate
              /\ fetch_log[i - 1].status = "no_results"
              /\ fetch_log[i - 1].number = e.number
              /\ fetch_log[i - 1].prefix = "GC" => e.prefix = "GT"
              /\ fetch_log[i - 1].prefix = "GT" => e.prefix = "GC"
              /\ i < Len(fetch_log) =>
                    /\ fetch_log[i + 1].prefix = e.prefix
                    /\ fetch_log[i + 1].number = e.number + 1
                    /\ ~fetch_log[i + 1].alternate
              /\ (i = Len(fetch_log) /\ pc = "run_scraper") =>
                    /\ scraper.current_prefix = e.prefix
                    /\ scraper.current_number = e.number + 1
        /\ (~e.alternate /\ e.saved /\ i < Len(fetch_log)) =>
              /\ fetch_log[i + 1].prefix = e.prefix
              /\ fetch_log[i + 1].number = e.number + 1
              /\ ~fetch_log[i + 1].alternate
        /\ (~e.alternate /\ i > 1 /\ e.prefix # PrevPrimary(i).prefix) =>
              /\ fetch_log[i - 1].alternate
              /\ fetch_log[i - 1].saved
              /\ fetch_log[i - 1].prefix = e.prefix

C4_Witness ==
    \E i \in 2..Len(fetch_log) :
        /\ fetch_log[i].alternate /\ fetch_log[i].saved
        /\ fetch_log[i - 1].prefix = "GC" /\ fetch_log[i].prefix = "GT"
        /\ i < Len(fetch_log)
        /\ fetch_log[i + 1].prefix = "GT"

\* C5 (as claimed): the first fetch of a criminal job whose docket type is GT
\* carries the prefix GT (GT25009793-00 for start 009793, year 2025), and
\* after its no_results the GC candidate of the same sequence is fetched.
C5_GTJobStartsWithGT ==
    (jobs_fetched >= 1 /\ Len(fetch_log) >= 1
       /\ upper(original_config["docketType"]) = "GT") =>
        /\ build_case_number("GT", <<"2", "5">>, <<"0", "0", "9", "7", "9", "3">>)
             = <<"G", "T", "2", "5", "0", "0", "9", "7", "9", "3", "-", "0", "0">>
        /\ fetch_log[1].prefix = "GT"
        /\ (fetch_log[1].status = "no_results" /\ Len(fetch_log) >= 2) =>
              /\ fetch_log[2].alternate
              /\ fetch_log[2].prefix = "GC"
              /\ fetch_log[2].number = fetch_log[1].number

\* C6: a job that runs a recovery descriptor starts at the failed session's
\* last_successful_number + 1, which is the sequence that failed; it fetches
\* no sequence that succeeded in the jobs it continues.
C6_RecoveryResumes ==
    job_note.recovery =>
        /\ pc = "run_scraper" => scraper.start_number = job_note.stored + 1
        /\ \A i \in 1..Len(fetch_log) : fetch_log[i].number \notin job_note.done
        /\ Len(fetch_log) >= 1 =>
              /\ fetch_log[1].number = job_note.stored + 1
              /\ fetch_log[1].number = job_note.failed

C6_Witness ==
    /\ job_note.recovery
    /\ job_note.done # {}
    /\ Len(fetch_log) >= 1

\* The requeue and update-watermark calls of the job
ReportCalls ==
    SelectSeq(api_calls,
              LAMBDA c : c.api \in {"add_job_to_queue", "update_docket_number"})

IdentityFields == {"stateName", "stateAbbreviation", "countyNo", "countyName",
                   "docketYear", "docketType"}

\* C7: once the report step of a job is over, exactly one queue report was
\* attempted, chosen by the session's error_occurred.  If TRUE it is a requeue
\* whose docket number is a 6-character digit string with the value
\* last_successful_number and whose identity fields are those of the
\* descriptor received; if FALSE it is update-watermark with the integer
\* last_successful_number.
C7_OneReport ==
    (pc \in {"insert", "vpn"} \/ (pc \in {"fetch_job", "done"} /\ jobs_fetched >= 1)) =>
        /\ Len(ReportCalls) = 1
        /\ LET r == ReportCalls[1] IN
           IF scraper.error_occurred
           THEN /\ r.api = "add_job_to_queue"
                /\ r.body["docketNumber"].t = "str"
                /\ Len(r.body["docketNumber"].s) = 6
                /\ \A k \in 1..6 : IsDigit(r.body["docketNumber"].s[k])
                /\ DigitsVal(r.body["docketNumber"].s) = scraper.last_successful_number
                /\ \A f \in IdentityFields \cap DOMAIN original_config :
                       r.body[f] = original_config[f]
           ELSE /\ r.api = "update_docket_number"
                /\ r.body["docket_number"] = IntV(scraper.last_successful_number)
                /\ r.body["county_no"] = original_config["countyNo"]
                /\ r.body["docket_type"] = original_config["docketType"]
                /\ r.body["docket_year"] = original_config["docketYear"]

C7_Witness ==
    /\ pc = "vpn"
    /\ Len(ReportCalls) = 1
    /\ ReportCalls[1].api = "add_job_to_queue"
    /\ ReportCalls[1].ok
    /\ ReportCalls[1].body["docketNumber"].s = <<"0", "0", "0", "0", "0", "1">>
    /\ "stateName" \in DOMAIN original_config

\* C8: for a stored docket number sent as an int or as a zero-padded string,
\* the normalized config, the session's start and its first fetch are at the
\* stored number plus one.
C8_StartIsStoredPlusOne ==
    (jobs_fetched >= 1 /\ pc # "crashed") =>
        /\ config["docketNumber"] = IntV(job_note.stored + 1)
        /\ scraper.start_number = job_note.stored + 1
        /\ Len(fetch_log) >= 1 => fetch_log[1].number = job_note.stored + 1

C8_Witness ==
    /\ jobs_fetched >= 1
    /\ ~job_note.recovery
    /\ original_config["docketNumber"].t = "str"
    /\ Len(original_config["docketNumber"].s) = 6
    /\ Len(fetch_log) >= 1

\* C9: the rotation decision after a job: with the job's error flag TRUE the
\* identity is rotated whatever the elapsed time; with the flag FALSE and the
\* elapsed time below the interval it is not rotated.
C9_RotationDecision ==
    vpn_log.decided =>
        /\ vpn_log.job_error => vpn_log.reconnected
        /\ (~vpn_log.job_error /\ vpn_log.elapsed < 60 * ReconnectIntervalMinutes) =>
              ~vpn_log.reconnected

C9_Witness ==
    /\ vpn_log.decided
    /\ vpn_log.job_error
    /\ vpn_log.elapsed = 0
    /\ vpn_log.reconnected
    /\ vpn_log.reconnects = 2


\* The records of the pass that loaded
LoadedRecords ==
    {disk[OUTPUT_DIR].jsondata[f].data :
        f \in {g \in DOMAIN disk[OUTPUT_DIR].jsondata : disk[OUTPUT_DIR].jsondata[g].ok}}

SamePerson(r1, r2) ==
    /\ InfoField(CaseInfo(r1), "Locality", "Locality ")
         = InfoField(CaseInfo(r2), "Locality", "Locality ")
    /\ InfoField(CaseInfo(r1), "Name", "Name ") = InfoField(CaseInfo(r2), "Name", "Name ")
    /\ InfoField(CaseInfo(r1), "Address", "Address ")
         = InfoField(CaseInfo(r2), "Address", "Address ")
    /\ InfoField(CaseInfo(r1), "Gender", "Gender ")
         = InfoField(CaseInfo(r2), "Gender", "Gender ")
    /\ InfoField(CaseInfo(r1), "DOB", "DOB ") = InfoField(CaseInfo(r2), "DOB", "DOB ")

\* A section list holds an entry tagged with the case number
Tagged(entries, cn) == \E i \in 1..Len(entries) : entries[i]["case_number"] = cn

\* Every section of the record has a filled field
FilledSections(r) ==
    /\ "Charge Information" \in DOMAIN r /\ AnyValue(r["Charge Information"])
    /\ "Disposition Information" \in DOMAIN r /\ AnyValue(r["Disposition Information"])
    /\ \E h \in 1..Len(r["Hearing Information"]) : AnyValue(r["Hearing Information"][h])

\* C10 (as claimed, for records whose sections all hold a filled field, so
\* that the emptiness filters of merge_grouped_cases play no part): after a
\* pass, two loaded records with identical locality, name, address, gender and
\* date of birth and different case numbers are in one merged record whose
\* charges, hearings and dispositions each are tagged with both case numbers.
C10_SamePersonMerged ==
    (pc = "report" /\ grouped_results # <<>>) =>
        \A r1, r2 \in LoadedRecords :
            (/\ SamePerson(r1, r2)
             /\ CaseNumberOf(r1) # <<>> /\ CaseNumberOf(r2) # <<>>
             /\ CaseNumberOf(r1) # CaseNumberOf(r2)
             /\ FilledSections(r1) /\ FilledSections(r2)) =>
                \E m \in 1..Len(grouped_results) :
                    /\ Tagged(grouped_results[m].charges, CaseNumberOf(r1))
                    /\ Tagged(grouped_results[m].charges, CaseNumberOf(r2))
                    /\ Tagged(grouped_results[m].hearings, CaseNumberOf(r1))
                    /\ Tagged(grouped_results[m].hearings, CaseNumberOf(r2))
                    /\ Tagged(grouped_results[m].dispositions, CaseNumberOf(r1))
                    /\ Tagged(grouped_results[m].dispositions, CaseNumberOf(r2))

InsertCalls == {i \in 1..Len(api_calls) : api_calls[i].api = "insert_records"}

\* The positions of the requeue and update-watermark calls
ReportPositions ==
    {i \in 1..Len(api_calls) :
        api_calls[i].api \in {"add_job_to_queue", "update_docket_number"}}

\* C12 (as claimed): once the insert step of a job is over, the merged
\* records of the job were submitted to bulk insert in one call made after
\* the requeue-or-watermark call, whatever the session's error_occurred and
\* whatever the aggregator returned, an empty result included.
C12_InsertAlways ==
    pc = "vpn" =>
        /\ Cardinality(InsertCalls) = 1
        /\ \A i \in InsertCalls :
               /\ api_calls[i].body = grouped_results
               /\ \A j \in ReportPositions : j < i

\* C12 (amended): the submission is made, after the requeue-or-watermark
\* call and whatever the session's error_occurred, exactly when the
\* aggregator returned at least one merged record; for an empty result no
\* bulk-insert call is made.
C12_InsertWhenNonEmpty ==
    pc = "vpn" =>
        /\ grouped_results # <<>> =>
               /\ Cardinality(InsertCalls) = 1
               /\ \A i \in InsertCalls :
                      /\ api_calls[i].body = grouped_results
                      /\ \A j \in ReportPositions : j < i
        /\ grouped_results = <<>> => InsertCalls = {}

\* The partial results of a session that ended in error were submitted after
\* its recovery job was requeued
C12_Witness ==
    /\ pc = "vpn"
    /\ scraper.error_occurred
    /\ InsertCalls # {}
    /\ \E j \in ReportPositions : api_calls[j].api = "add_job_to_queue"

\* C13: when the bulk insert of a job failed, the rotation step of that job
\* saw the job as errored and rotated the identity before the next fetch,
\* also after a clean session and before the interval had elapsed; the only
\* queue report of the job is the one the session's error_occurred chose (no
\* requeue after a clean session), and no call follows the failed insert.
C13_InsertFailureRotates ==
    (/\ pc = "fetch_job"
     /\ jobs_fetched >= 1
     /\ vpn_log.decided
     /\ \E i \in InsertCalls : ~api_calls[i].ok) =>
        /\ vpn_log.job_error
        /\ vpn_log.reconnected
        /\ last_vpn_reconnect_time = now
        /\ Cardinality(ReportPositions) = 1
        /\ \A j \in ReportPositions :
               /\ j = 1
               /\ api_calls[j].api = IF scraper.error_occurred THEN "add_job_to_queue"
                                     ELSE "update_docket_number"
        /\ Len(api_calls) = 2
        /\ api_calls[2].api = "insert_records"

\* A clean session whose watermark update went through, a failed insert, and
\* a rotation made before the interval had elapsed
C13_Witness ==
    /\ pc = "fetch_job"
    /\ vpn_log.decided
    /\ ~scraper.error_occurred
    /\ Len(api_calls) = 2
    /\ api_calls[1].api = "update_docket_number" /\ api_calls[1].ok
    /\ api_calls[2].api = "insert_records" /\ ~api_calls[2].ok
    /\ vpn_log.elapsed < 60 * ReconnectIntervalMinutes
    /\ vpn_log.reconnected

\* C14: a fetch that yields no job (code 202, no job details, or an
\* exception of the call) takes the loop to shutdown and to nothing else; the
\* loop shuts down only from such a fetch, with nothing else changed; after
\* shutdown no step is taken (no fetch, no session, no retry).
C14_NoJobEndsLoop ==
    /\ [][/\ (pc = "fetch_job" /\ jobs_fetched' = jobs_fetched) => pc' = "done"
          /\ pc' = "done" =>
                /\ pc = "fetch_job"
                /\ jobs_fetched' = jobs_fetched
                /\ fetch_log' = fetch_log
                /\ api_calls' = api_calls
                /\ queue' = queue
                /\ vpn_log' = vpn_log]_vars
    /\ [](pc = "done" => ~ENABLED Next)

\* The loop has shut down although the queue holds a job the worker could
\* still have taken: the fetch gave no job details or raised
C14_Witness ==
    /\ pc = "done"
    /\ queue # <<>>
    /\ jobs_fetched >= 1
    /\ jobs_fetched < MaxJobs

\* C15: the requeue-or-watermark step always hands over to the insert step,
\* the insert step to the rotation step and the rotation step to the next
\* fetch, whether the call made in the step failed or not, and none of these
\* steps changes a file of an artifact tree; each of the steps can be taken.
C15_CallFailureIsolated ==
    /\ [][/\ pc = "report" => (pc' = "insert" /\ disk' = disk)
          /\ pc = "insert" => (pc' = "vpn" /\ disk' = disk)
          /\ pc = "vpn" => (pc' \in {"vpn", "fetch_job"} /\ disk' = disk)]_vars
    /\ [](pc = "report" => ENABLED Report)
    /\ [](pc = "insert" => ENABLED Insert)
    /\ [](pc = "vpn" => ENABLED VpnStep)

\* Both calls of a job failed, its raw record and merged file are on disk and
\* the loop is at the next fetch
C15_Witness ==
    /\ pc = "fetch_job"
    /\ Len(api_calls) = 2
    /\ ~api_calls[1].ok
    /\ ~api_calls[2].ok
    /\ disk[OUTPUT_DIR].jsondata # <<>>
    /\ disk[OUTPUT_DIR].groupeddata # <<>>

\* The records the first pass of the job loaded, in load order
PassCases ==
    load_all_json_files(Listing(disk[OUTPUT_DIR].jsondata, listdir_log[1].order))

\* The key classes of the pass in first-seen order
PassKeys == GroupKeys(PassCases, <<>>)

\* The files of jsondata that json.load reads
ReadableFiles ==
    {f \in DOMAIN disk[OUTPUT_DIR].jsondata : disk[OUTPUT_DIR].jsondata[f].ok}

\* C16 (as claimed): after a pass that did not raise, every readable file
\* was loaded whatever unreadable files lie beside it, there is one merged
\* record per key class, every loaded record is in exactly one class, and a
\* loaded record's case number is found in the merged record of its class
\* (in the header section or as the tag of a section entry) and in no other.
C16_EveryRecordTraceable ==
    (pc = "report" /\ Len(listdir_log) = 1 /\ ~listdir_log[1].raised) =>
        /\ Len(PassCases) = Cardinality(ReadableFiles)
        /\ Len(grouped_results) = Len(PassKeys)
        /\ \A i \in 1..Len(PassCases) :
               /\ Cardinality({k \in 1..Len(PassKeys) :
                                 PassKeys[k] = create_grouping_key(PassCases[i])}) = 1
               /\ CaseNumberOf(PassCases[i]) # <<>> =>
                      \A k \in 1..Len(PassKeys) :
                          (PassKeys[k] = create_grouping_key(PassCases[i]))
                          <=> (CaseNumberOf(PassCases[i])
                                 \in MergedCaseNumbers(grouped_results[k]))

\* C17: the identity has been rotated once when the first job is fetched;
\* every later rotation is made by the rotation step between two jobs, which
\* hands over to the next fetch: a step that rotates makes no fetch and no
\* queue or database call and leaves the session as it is, and no step of a
\* session, of the aggregation or of the submissions rotates.
C17_RotationOnlyBetweenJobs ==
    /\ [](pc # "start" => vpn_log.reconnects >= 1)
    /\ []((pc = "fetch_job" /\ jobs_fetched = 0) => vpn_log.reconnects = 1)
    /\ [][(\/ vpn_log.reconnects' # vpn_log.reconnects
           \/ last_vpn_reconnect_time' # last_vpn_reconnect_time) =>
              /\ vpn_log.reconnects' = vpn_log.reconnects + 1
              /\ last_vpn_reconnect_time' = now'
              /\ pc \in {"start", "vpn"}
              /\ pc' = "fetch_job"
              /\ jobs_fetched' = jobs_fetched
              /\ fetch_log' = fetch_log
              /\ api_calls' = api_calls
              /\ scraper' = scraper]_vars
    /\ [][(pc \in {"run_scraper", "report", "insert"}) =>
              /\ vpn_log' = vpn_log
              /\ last_vpn_reconnect_time' = last_vpn_reconnect_time]_vars

\* The second job's session is fetching after a rotation between the jobs
C17_Witness ==
    /\ pc = "run_scraper"
    /\ jobs_fetched = 2
    /\ Len(fetch_log) >= 1
    /\ vpn_log.reconnects >= 2
    /\ vpn_log.reconnected

\* C18: a bulk-insert call submits no case number that a call of an earlier
\* job working in the same artifact tree has already submitted with success.
C18_NoDoubleInsert ==
    [][(pc = "insert" /\ Len(api_calls') > Len(api_calls)) =>
          InsertedFrom(OUTPUT_DIR, grouped_results) \cap inserted = {}]_vars

\* The step is a fetch that returned success whose document save_html could
\* not save or parse
UnsavedSuccessStep ==
    /\ Len(fetch_log') = Len(fetch_log) + 1
    /\ fetch_log'[Len(fetch_log')].status = "success"
    /\ ~fetch_log'[Len(fetch_log')].saved

\* C19: a fetch (active or alternate prefix) that returns success at sequence
\* n but whose document is not saved or parsed is the last fetch of the
\* session; the session returns with error_occurred = TRUE,
\* last_successful_number and the active prefix keep the values they had
\* before the fetch (so last_successful_number is below n), and a
\* save_parse_error result for the case number is the last of results.
C19_SaveFailureStops ==
    /\ [][UnsavedSuccessStep =>
             /\ scraper.at \in {"scrape", "alternate"}
             /\ fetch_log'[Len(fetch_log')].alternate = (scraper.at = "alternate")
             /\ fetch_log'[Len(fetch_log')].number = scraper.current_number
             /\ scraper'.at = "returned"
             /\ scraper'.error_occurred
             /\ scraper'.last_successful_number = scraper.last_successful_number
             /\ scraper'.last_successful_number < scraper.current_number
             /\ scraper'.current_prefix = scraper.current_prefix
             /\ scraper'.results =
                    Append(scraper.results,
                           [status |-> "save_parse_error",
                            case_number |-> fetch_log'[Len(fetch_log')].case_number])]_vars
    /\ [](\A i \in 1..Len(fetch_log) :
             (fetch_log[i].status = "success" /\ ~fetch_log[i].saved) =>
                 /\ i = Len(fetch_log)
                 /\ scraper.at = "returned"
                 /\ pc \in {"report", "insert", "vpn"} =>
                        /\ error_occurred
                        /\ last_successful_number < fetch_log[i].number
                        /\ results[Len(results)] =
                               [status |-> "save_parse_error",
                                case_number |-> fetch_log[i].case_number])

C19_Witness ==
    /\ Len(fetch_log) >= 3
    /\ fetch_log[Len(fetch_log)].alternate
    /\ fetch_log[Len(fetch_log)].status = "success"
    /\ ~fetch_log[Len(fetch_log)].saved
    /\ fetch_log[1].saved
    /\ pc = "report"

\* C20: in every state of a session last_successful_number is at least
\* start_number - 1 and below the sequence being attempted (current_number),
\* and no step of the session lowers it.
C20_LastSuccessfulBounds ==
    /\ [](scraper.at # "idle" =>
             /\ scraper.last_successful_number >= scraper.start_number - 1
             /\ scraper.last_successful_number < scraper.current_number)
    /\ [][(scraper.at # "idle" /\ jobs_fetched' = jobs_fetched) =>
             scraper'.last_successful_number >= scraper.last_successful_number]_vars

C20_Witness ==
    /\ scraper.at = "alternate"
    /\ scraper.last_successful_number = scraper.start_number
    /\ scraper.current_number = scraper.start_number + 1
    /\ jobs_fetched = 2

\* The fetches of this job at docket sequence n
FetchesAt(n) == {i \in 1..Len(fetch_log) : fetch_log[i].number = n}

\* C21: a fetch of the alternate prefix happens only in a criminal session,
\* directly after the fetch of the active prefix returned no_results at the
\* same sequence, and a sequence has at most two fetches; when the alternate
\* returns no_results too, it is the last fetch of the session, which ends
\* (after the closing sleep) with error_occurred = FALSE and the active
\* prefix it had.
C21_AlternateOnceAfterMiss ==
    /\ [](\A i \in 1..Len(fetch_log) :
             /\ Cardinality(FetchesAt(fetch_log[i].number)) <= 2
             /\ fetch_log[i].alternate =>
                    /\ scraper.case_type = "criminal"
                    /\ i > 1
                    /\ ~fetch_log[i - 1].alternate
                    /\ fetch_log[i - 1].status = "no_results"
                    /\ fetch_log[i - 1].number = fetch_log[i].number
                    /\ fetch_log[i].prefix = get_alternate_prefix(fetch_log[i - 1].prefix)
                    /\ fetch_log[i].status = "no_results" =>
                           /\ i = Len(fetch_log)
                           /\ scraper.at \in {"sleep", "returned"}
                           /\ ~scraper.error_occurred
                           /\ scraper.current_prefix = fetch_log[i - 1].prefix
                           /\ pc = "report" => ~error_occurred)
    /\ [][(scraper.at = "sleep" /\ fetch_log # <<>>
            /\ fetch_log[Len(fetch_log)].status = "no_results"
            /\ scraper' # scraper)
           => (scraper'.at = "returned" /\ fetch_log' = fetch_log)]_vars

C21_Witness ==
    /\ Len(fetch_log) = 4
    /\ fetch_log[2].alternate /\ fetch_log[2].saved
    /\ fetch_log[4].alternate /\ fetch_log[4].status = "no_results"
    /\ fetch_log[3].prefix = "GT"
    /\ pc = "report"

\* C22: between two consecutive fetches of a session an asyncio.sleep(2) of
\* run_scraper has returned, also between the fetch of the active prefix and
\* the fetch of the alternate prefix at the same sequence.
C22_DelayBetweenFetches ==
    \A i \in 1..(Len(fetch_log) - 1) :
        fetch_log[i + 1].delays > fetch_log[i].delays

\* C23: the key group_and_merge_json_files computes for a record depends
\* only on locality, name, address, gender and date of birth: two records of
\* a pass that agree on these five fields have the same grouping key,
\* whatever their case numbers and filed dates.
C23_KeyIsPersonOnly ==
    (pc = "report" /\ Len(listdir_log) = 1 /\ ~listdir_log[1].raised) =>
        \A r1, r2 \in LoadedRecords :
            SamePerson(r1, r2) => create_grouping_key(r1) = create_grouping_key(r2)

\* The members of class k of the pass, in load order
ClassMembers(k) == CasesOfKey(PassCases, PassKeys[k])

\* The hearing entries <<member, entry>> of class k that hold a filled field
FilledHearings(k) ==
    UNION {{<<i, h>> : h \in {j \in 1..Len(Get(ClassMembers(k)[i],
                                                "Hearing Information", <<>>)) :
                AnyValue(Get(ClassMembers(k)[i], "Hearing Information", <<>>)[j])}} :
           i \in 1..Len(ClassMembers(k))}

\* C24: in the merged record of a class every member has one disposition
\* entry (a member's disposition section is appended even when it is empty),
\* while a charge section and a hearing entry are appended only when one of
\* their fields is non-empty.
C24_DispositionsUnconditional ==
    (pc = "report" /\ Len(listdir_log) = 1 /\ ~listdir_log[1].raised) =>
        \A k \in 1..Len(grouped_results) :
            /\ Len(grouped_results[k].dispositions) = Len(ClassMembers(k))
            /\ Len(grouped_results[k].charges) =
                   Cardinality({i \in 1..Len(ClassMembers(k)) :
                       AnyValue(Get(ClassMembers(k)[i], "Charge Information", <<>>))})
            /\ Len(grouped_results[k].hearings) = Cardinality(FilledHearings(k))

\* The distinct non-empty case numbers of the members of class k
ClassCaseNumbers(k) ==
    {CaseNumberOf(ClassMembers(k)[i]) : i \in 1..Len(ClassMembers(k))} \ {<<>>}

\* The name of the file the pass wrote for class k
ClassFile(k) == GroupedFilename(ClassMembers(k), k)

\* s holds t as a contiguous part
Contains(s, t) ==
    \E a \in 0..(Len(s) - Len(t)) : SubSeq(s, a + 1, a + Len(t)) = t

\* C25: a pass leaves one file per merged record it returns, holding that
\* record.  The file of a class is named by its case number ('-' written as
\* '_') when the class has one, by all its case numbers joined with '_' when
\* it has several, and by the index of the class when it has none; two
\* classes of the pass never share a filename.
C25_OneFilePerMergedRecord ==
    (pc = "report" /\ Len(listdir_log) = 1 /\ ~listdir_log[1].raised) =>
        /\ Len(grouped_results) = Len(PassKeys)
        /\ Cardinality(DOMAIN disk[OUTPUT_DIR].groupeddata) = Len(grouped_results)
        /\ \A k \in 1..Len(grouped_results) :
               /\ ClassFile(k) \in DOMAIN disk[OUTPUT_DIR].groupeddata
               /\ disk[OUTPUT_DIR].groupeddata[ClassFile(k)] = grouped_results[k]
               /\ \A j \in 1..Len(grouped_results) :
                      j # k => ClassFile(j) # ClassFile(k)
               /\ ClassCaseNumbers(k) = {} =>
                      ClassFile(k) = S_grouped_case \o PyStr(k) \o S_json
               /\ \A cn \in ClassCaseNumbers(k) :
                      Contains(ClassFile(k), replace(cn, "-", "_"))
               /\ ClassCaseNumbers(k) # {} =>
                      Len(ClassFile(k)) =
                          14 * Cardinality(ClassCaseNumbers(k)) - 1 + Len(S_json)

C25_Witness ==
    /\ pc = "report" /\ Len(listdir_log) = 1 /\ ~listdir_log[1].raised
    /\ Len(grouped_results) = 2
    /\ ClassCaseNumbers(1) = {} /\ ClassCaseNumbers(2) = {}

\* Loaded record i is the first of the pass with its key
FirstSeen(i) ==
    \A j \in 1..(i - 1) :
        create_grouping_key(PassCases[j]) # create_grouping_key(PassCases[i])

\* The loaded records that are the first with their key
FirstSeenSet == {i \in 1..Len(PassCases) : FirstSeen(i)}

\* The k-th of them in load order
FirstOfClass(k) ==
    CHOOSE i \in FirstSeenSet : Cardinality({j \in FirstSeenSet : j < i}) = k - 1

\* C26: a pass returns one merged record per key, in the order in which the
\* keys were first seen among the loaded records, and the header fields of a
\* merged record (state, court name, download date, county, docket
\* information) are those of the first-loaded record with its key.
C26_FirstSeenOrderAndHeader ==
    (pc = "report" /\ Len(listdir_log) = 1 /\ ~listdir_log[1].raised) =>
        /\ Len(grouped_results) = Cardinality(FirstSeenSet)
        /\ \A k \in 1..Len(grouped_results) :
               /\ grouped_results[k].state = PassCases[FirstOfClass(k)].state
               /\ grouped_results[k].court_name = PassCases[FirstOfClass(k)].court_name
               /\ grouped_results[k].download_date
                     = PassCases[FirstOfClass(k)].download_date
               /\ grouped_results[k].county_no
                     = PassCases[FirstOfClass(k)].searchFipsCode
               /\ grouped_results[k].docket_information
                     = CaseInfo(PassCases[FirstOfClass(k)])

C26_Witness ==
    /\ pc = "report" /\ Len(listdir_log) = 1 /\ ~listdir_log[1].raised
    /\ Len(PassCases) = 2
    /\ Len(grouped_results) = 1
    /\ listdir_log[1].order[1] = RawCaseNumber(2)
    /\ grouped_results[1].download_date = <<"2">>

\* The county number of the descriptor the job was fetched with, padded
PaddedCounty ==
    StrV(zfill(PyStr(PyInt(original_config["countyNo"])), 3))

\* C27: after the normalization of a queue descriptor whose county is a
\* number of at most three digits (sent as int or as string), countyNo,
\* searchFipsCode and courtFips of the config, and of the config the scraper
\* keeps, hold one string: the number zero-padded to 3 characters; the docket
\* type GC or GT in any letter case gives case type criminal and division T,
\* GV gives civil and V, and the session runs with that case type.
C27_NormalizedCountyAndType ==
    (pc = "run_scraper" /\ jobs_fetched = 1 /\ fetch_log = <<>>) =>
        /\ Len(PaddedCounty.s) = 3
        /\ \A f \in {"countyNo", "searchFipsCode", "courtFips"} :
               /\ config[f] = PaddedCounty
               /\ VirginiaScraper_init(config)[f] = PaddedCounty
        /\ VirginiaScraper_init(config)["county_no"] = PaddedCounty
        /\ original_config["docketType"] \in CodesGC \cup CodesGT =>
               /\ config["caseType"] = "criminal"
               /\ config["searchDivision"] = "T"
               /\ VirginiaScraper_init(config)["caseType"] = "criminal"
               /\ VirginiaScraper_init(config)["searchDivision"] = "T"
               /\ scraper.case_type = "criminal"
        /\ original_config["docketType"] \in CodesGV =>
               /\ config["caseType"] = "civil"
               /\ config["searchDivision"] = "V"
               /\ VirginiaScraper_init(config)["caseType"] = "civil"
               /\ VirginiaScraper_init(config)["searchDivision"] = "V"
               /\ scraper.case_type = "civil"

C27_Witness ==
    /\ pc = "run_scraper" /\ jobs_fetched = 1
    /\ original_config["countyNo"] = StrV(<<" ", "7", " ">>)
    /\ original_config["docketType"] = "gT"
    /\ config["courtFips"] = StrV(<<"0", "0", "7">>)

\* C28: after a job without error the identity is rotated when the time
\* elapsed since last_vpn_reconnect_time has reached the interval; a step that
\* rotates sets last_vpn_reconnect_time to the time at which the rotation
\* completed, so the timestamp never decreases, is never ahead of the clock,
\* and the timestamp a decision reads is that of the last completed rotation.
C28_RotationTimestamp ==
    /\ []((vpn_log.decided /\ ~vpn_log.job_error
            /\ vpn_log.elapsed >= 60 * ReconnectIntervalMinutes)
           => vpn_log.reconnected)
    /\ [](vpn_log.reconnects >= 1 =>
             /\ last_vpn_reconnect_time = vpn_log.completed
             /\ last_vpn_reconnect_time <= now)
    /\ [][/\ last_vpn_reconnect_time' >= last_vpn_reconnect_time
          /\ vpn_log.reconnects' > vpn_log.reconnects =>
                last_vpn_reconnect_time' = now'
          /\ (pc = "vpn" /\ pc' = "fetch_job") =>
                vpn_log'.elapsed = now - vpn_log.completed]_vars

C28_Witness ==
    /\ vpn_log.decided
    /\ ~vpn_log.job_error
    /\ vpn_log.reconnected
    /\ vpn_log.elapsed = 60 * ReconnectIntervalMinutes
    /\ last_vpn_reconnect_time = now
    /\ now = vpn_log.elapsed + TickSeconds

\* The raw records of the job's artifact tree
JobRawFiles == disk[OUTPUT_DIR].jsondata

\* C29: execution is serial.  A step makes at most one fetch, and only as a
\* step of the session in progress; a job is fetched only when the loop is
\* at its top, the session of the job before it having returned and its
\* rotation step being done; the aggregation starts only when the session has
\* returned its outcome, and from then on the job makes no fetch and no write
\* to the raw records of its artifact tree.
C29_StrictlySerial ==
    /\ [](pc = "run_scraper" \/ scraper.at \in {"idle", "returned"})
    /\ [][fetch_log' # fetch_log /\ jobs_fetched' = jobs_fetched =>
             /\ Len(fetch_log') = Len(fetch_log) + 1
             /\ pc = "run_scraper" /\ pc' = "run_scraper"
             /\ scraper.at \in {"scrape", "alternate"}
             /\ listdir_log = <<>>]_vars
    /\ [][jobs_fetched' # jobs_fetched =>
             /\ jobs_fetched' = jobs_fetched + 1
             /\ pc = "fetch_job"
             /\ scraper.at \in {"idle", "returned"}
             /\ jobs_fetched >= 1 => vpn_log.decided]_vars
    /\ [][Len(listdir_log') > Len(listdir_log) =>
             /\ scraper.at = "returned"
             /\ scraper' = scraper
             /\ results' = scraper.results
             /\ fetch_log' = fetch_log
             /\ JobRawFiles' = JobRawFiles]_vars
    /\ [][(listdir_log # <<>> /\ jobs_fetched' = jobs_fetched) =>
             /\ fetch_log' = fetch_log
             /\ scraper' = scraper
             /\ JobRawFiles' = JobRawFiles]_vars

C29_Witness ==
    /\ pc = "insert"
    /\ jobs_fetched = 2
    /\ Len(fetch_log) >= 2
    /\ listdir_log # <<>>
    /\ Cardinality(DOMAIN JobRawFiles) >= 2

\* The number of sequences from start_number to last_successful_number
SuccessCount == scraper.last_successful_number - scraper.start_number + 1

\* C30: when the session has returned, results holds one success entry for
\* each sequence from start_number to last_successful_number, in increasing
\* order, followed by one entry that is not a success exactly when
\* error_occurred is TRUE; no entry has the status no_results.  main()
\* receives that sequence.
C30_ResultsShape ==
    scraper.at = "returned" =>
        /\ SuccessCount >= 0
        /\ Len(scraper.results) = SuccessCount + (IF scraper.error_occurred THEN 1 ELSE 0)
        /\ \A i \in 1..SuccessCount :
               /\ scraper.results[i].status = "success"
               /\ NumberOfCase(scraper.results[i].case_number)
                     = scraper.start_number + i - 1
        /\ scraper.error_occurred =>
               scraper.results[SuccessCount + 1].status
                   \in {"error", "timeout", "save_parse_error"}
        /\ \A i \in 1..Len(scraper.results) : scraper.results[i].status # "no_results"
        /\ pc = "report" => results = scraper.results

C30_Witness ==
    /\ scraper.at = "returned"
    /\ pc = "report"
    /\ scraper.error_occurred
    /\ Len(scraper.results) = 3
    /\ scraper.results[3].status = "timeout"
    /\ \E i \in 1..Len(fetch_log) : fetch_log[i].status = "no_results"

\* The docket number of the job's queue report, as a number
ReportedNumber ==
    IF ReportCalls[1].api = "add_job_to_queue"
    THEN PyInt(ReportCalls[1].body["docketNumber"])
    ELSE PyInt(ReportCalls[1].body["docket_number"])

\* The docket number the job's descriptor stored, as a number
StoredNumber == PyInt(original_config["docketNumber"])

\* C31: the docket number a job reports to the queue (requeue or
\* update-watermark) is not below the docket number of the descriptor the job
\* was fetched with, and is that number exactly when results holds no
\* success; a job whose first fetch is a hard failure requeues the docket
\* number it received.
C31_ReportedNotBelowStored ==
    Len(ReportCalls) = 1 =>
        /\ ReportedNumber >= StoredNumber
        /\ (ReportedNumber = StoredNumber) <=> (SuccessNumbers(results) = {})
        /\ (ReportedNumber = StoredNumber) <=> (SavedNumbers = {})
        /\ (Len(fetch_log) = 1 /\ fetch_log[1].status \in {"error", "timeout"}) =>
               /\ ReportCalls[1].api = "add_job_to_queue"
               /\ ReportedNumber = StoredNumber

C31_Witness ==
    /\ Len(ReportCalls) = 1
    /\ jobs_fetched = 2
    /\ job_note.recovery
    /\ StoredNumber = 1
    /\ Len(fetch_log) = 1
    /\ fetch_log[1].status = "timeout"
    /\ ReportCalls[1].body["docketNumber"] = original_config["docketNumber"]

\* The session of the current job has returned from run_scraper
SessionReturned == scraper.at = "returned"

\* C32: a session that has started reaches a terminal outcome, a clean stop
\* or a hard stop, when every fetch returns and the site has a match for
\* finitely many sequences (at most MaxDocket); once the session has
\* returned, no fetch is issued until the next job starts its own session.
C32_SessionTerminates ==
    /\ (pc = "run_scraper") ~> SessionReturned
    /\ [][(SessionReturned /\ jobs_fetched' = jobs_fetched)
            => (fetch_log' = fetch_log /\ SessionReturned')]_vars

C32_Witness ==
    /\ SessionReturned
    /\ pc = "run_scraper"
    /\ ~scraper.error_occurred
    /\ Len(fetch_log) = 4
    /\ fetch_log[1].status = "success" /\ fetch_log[2].status = "success"
    /\ fetch_log[3].status = "no_results" /\ fetch_log[4].status = "no_results"
    /\ fetch_log[4].alternate

====
